---- MODULE Spec2Model ----
(***************************************************************************)
(* The Writer -> Judge loop of src/agents/loop.py and the background job   *)
(* wrapper of src/main.py.                                                 *)
(*                                                                         *)
(* A "run" is one activation of the loop: either a job handed to the       *)
(* thread pool by POST /api/generate (run() with a job dict), or a direct  *)
(* call of _execute() with job = None, as the unit tests make it.  The     *)
(* job dicts are the shared state; everything else is local to a run.      *)
(* A step of a run is one write to the job dict, or the return of one      *)
(* agent call, together with the local computation that follows it up to   *)
(* the next such point.                                                    *)
(*                                                                         *)
(* The agents of src/agents/writer.py and src/agents/judge.py are modelled *)
(* on their own, one invocation at a time, by the completion calls they    *)
(* make; texts are sequences of parts, so that "contains" can be checked.  *)
(*                                                                         *)
(* The session store of src/frontend/session.py is the set of session ids  *)
(* together with the calls made to it, from which the claims tell which    *)
(* ids were created and not deleted since.                                 *)
(***************************************************************************)
EXTENDS Naturals, Sequences, FiniteSets, TLC

VARIABLES
    max_iterations,  \* config.agent.max_iterations, loaded once at startup
    jobs,            \* main.jobs: job_id -> job dict
    queue,           \* work queue of _executor: runs submitted, not started
    run,             \* the runs, in creation order: each one's local state
    replies,         \* the job ids returned by POST /api/generate, in order
    poll,            \* the last response of GET /api/status/{job_id}, if any
    llm,             \* the agent invocation under way: its completion calls
    api_key,         \* os.environ["API_KEY"], if set
    sessions,        \* session._sessions: the session ids stored
    session_calls,   \* the calls of the session store and the logins, in order
    session_password \* os.environ["FRONTEND_SESSION_PASSWORD"], if set

\* The state of the browser frontend
frontend == <<sessions, session_calls, session_password>>

vars == <<max_iterations, jobs, queue, run, replies, poll, llm, api_key, frontend>>

\* ------------------------------------------------------------------ values

\* Python's None and a present value, for every field that may be None.
None == <<>>
Some(x) == <<x>>

\* ThreadPoolExecutor(max_workers=4)
max_workers == 4

\* Largest configured cap explored.
MaxCap == 3

\* Largest number of jobs submitted in the job specification.
MaxJobs == 2

\* Largest number of jobs submitted in the pool specification: one more than
\* the pool has threads.
MaxPoolJobs == 5

Topics == {"The Roman Empire"}
Drafts == {"draft 1", "draft 2"}
Verdicts == {"pass", "fail", "maybe"}
AnnotationLists == {<<>>, <<"issue A">>, <<"issue B", "issue A">>}
Exceptions == {"boom"}

\* tests/conftest.py: the API key the server is configured with
TEST_API_KEY == "test-api-key-123"

\* The texts a completion call may return: the empty text and two others.
Texts == {<<>>, <<"text A">>, <<"text B">>}

\* The feedback argument of write(): absent, or a list of annotations.
Feedbacks == {None} \cup {Some(a) : a \in AnnotationLists}

\* config.writer: a prompt template with the {topic} and {feedback}
\* placeholders, and the article rules.
ArticleRules ==
    [max_word_count      |-> 800,
     max_paragraph_count |-> 6,
     required_sections   |-> <<"Introduction", "Body", "Conclusion">>,
     tone                |-> "neutral"]

WriterTemplates ==
    {<<"Write an article about ", "{topic}", ".\n", "{feedback}">>,
     <<"{feedback}", "\n", "Topic: ", "{topic}">>}

WriterConfigs == [system_prompt : WriterTemplates, article_rules : {ArticleRules}]

\* config.judge: a prompt template with the {topic} and {article}
\* placeholders, and the acceptance criteria.
JudgeTemplates ==
    {<<"Fact-check the article on ", "{topic}", ":\n", "{article}">>}

JudgeConfigs ==
    [system_prompt : JudgeTemplates,
     acceptance_criteria : {<<"Every claim is accurate.", "Sources are current.">>}]

\* The article argument of judge()
Articles == {<<"Some article text.">>, <<>>}

\* The values of data["annotations"] in the dict complete_structured()
\* returns: the key absent, null, or a list whose items are strings or, if
\* the provider lets them through, other values.
AnnotationValues ==
    {[kind |-> "absent", items |-> <<>>], [kind |-> "null", items |-> <<>>]}
    \cup {[kind |-> "list", items |-> l] :
            l \in {<<>>, <<[str |-> "issue A"]>>,
                   <<[str |-> "issue B"], [int |-> 7]>>}}

StructuredData == [verdict : {"pass", "fail"}, annotations : AnnotationValues]

\* os.environ.get("API_KEY"): unset, empty, or the key
ApiKeys == {None, Some(""), Some(TEST_API_KEY)}

\* The X-API-Key header of a request: absent, empty, wrong, or the key
Headers == {None, Some(""), Some("not-the-right-key"), Some(TEST_API_KEY)}

\* secrets.token_urlsafe(32): the session ids that can be drawn
Tokens == {"token 1", "token 2", "token 3"}

\* os.environ.get("FRONTEND_SESSION_PASSWORD"): unset, or a password
SessionPasswords == {None, Some("open sesame")}

\* The password field of the login form
Passwords == {"", "open sesame", "guess"}

\* The number of session store calls and logins explored
MaxCalls == 4

\* The texts a free-text Judge call may return, by what a YAML parser makes
\* of them: a syntax error, or a document that is a mapping or a list; a
\* mapping may have a verdict (in any letter case) and may have annotations
\* that are a list or a scalar.
VerdictTexts ==
    [syntax      : {"ok", "malformed"},
     shape       : {"mapping", "list"},
     verdict     : {None, Some("pass"), Some("fail"), Some("Pass"), Some("maybe")},
     annotations : {[kind |-> "absent", items |-> <<>>],
                    [kind |-> "scalar", items |-> <<>>],
                    [kind |-> "list", items |-> <<>>],
                    [kind |-> "list", items |-> <<"issue A", "issue B">>]}]

\* JudgeResult(verdict, annotations)
JudgeResults == [verdict : Verdicts, annotations : AnnotationLists]

\* ------------------------------------------------------- pure helpers
\* range(1, max_iterations): the "+ 1" of the range's end forgotten.
LoopRange_EndExclusive(cap) == {i \in 1 .. cap : i < cap}

\* range(1, max_iterations + 2): one value too many.
LoopRange_OneMore(cap) == 1 .. cap + 1

\* range(1, max_iterations + 1)
LoopRange(cap) == 1 .. cap

\* IterationRecord(iteration=..., writer_output=..., judge_verdict=...,
\* judge_annotations=..., duration_seconds=...): the schema has no duration
\* field, so the model keeps the four declared ones.
IterationRecord(iteration, draft, result) ==
    [iteration         |-> iteration,
     writer_output     |-> draft,
     judge_verdict     |-> result.verdict,
     judge_annotations |-> result.annotations]

\* history.insert(0, IterationRecord(...)): newest record first.
AppendRecord_Prepend(history, iteration, draft, result) ==
    <<IterationRecord(iteration, draft, result)>> \o history

\* history.append(IterationRecord(...))
AppendRecord(history, iteration, draft, result) ==
    Append(history, IterationRecord(iteration, draft, result))

\* if result.verdict != "fail": everything but a fail accepts.
Accepts_NotFail(result) == result.verdict # "fail"

\* result.verdict == "pass"
Accepts(result) == result.verdict = "pass"

\* feedback = result.annotations[::-1]: the order of the annotations lost.
NextFeedback_Reversed(feedback, result) ==
    Some([i \in 1 .. Len(result.annotations) |->
            result.annotations[Len(result.annotations) + 1 - i]])

\* feedback = (feedback or []) + result.annotations: accumulation.
NextFeedback_Accumulate(feedback, result) ==
    Some((IF feedback = None THEN <<>> ELSE feedback[1]) \o result.annotations)

\* feedback = result.annotations
NextFeedback(feedback, result) == Some(result.annotations)

\* The response built from the first draft of the run instead of the accepted one.
GenerateResponse_FirstDraft(draft, iteration, history, verbose) ==
    [success    |-> TRUE,
     article    |-> history[1].writer_output,
     iterations |-> iteration,
     history    |-> IF verbose THEN Some(history) ELSE None]

\* history=history, whatever verbose says.
GenerateResponse_AlwaysHistory(draft, iteration, history, verbose) ==
    [success    |-> TRUE,
     article    |-> draft,
     iterations |-> iteration,
     history    |-> Some(history)]

\* GenerateResponse(article=draft, iterations=iteration,
\*                  history=history if verbose else None)
GenerateResponse(draft, iteration, history, verbose) ==
    [success    |-> TRUE,
     article    |-> draft,
     iterations |-> iteration,
     history    |-> IF verbose THEN Some(history) ELSE None]

\* f"Article did not pass after {max_iterations} iterations."
CapErrorText(cap) ==
    <<"Article did not pass after ", ToString(cap), " iterations.">>

\* ErrorResponse(error=..., iterations=max_iterations, history=history)
ErrorResponse(cap, history) ==
    [success    |-> FALSE,
     error      |-> CapErrorText(cap),
     iterations |-> cap,
     history    |-> history]

\* f"Unexpected error: {exc}"
UnexpectedErrorText(exc) == <<"Unexpected error: ", exc>>

\* IterationRecord.model_dump()
DumpRecord(rec) ==
    [iteration         |-> rec.iteration,
     writer_output     |-> rec.writer_output,
     judge_verdict     |-> rec.judge_verdict,
     judge_annotations |-> rec.judge_annotations]

DumpHistory(history) == [i \in 1 .. Len(history) |-> DumpRecord(history[i])]

\* response.model_dump(exclude={"history"}): the history is left out.
ModelDump_ExcludeHistory(response) ==
    IF response.success
    THEN [success    |-> response.success,
          article    |-> response.article,
          iterations |-> response.iterations,
          history    |-> None]
    ELSE [success    |-> response.success,
          error      |-> response.error,
          iterations |-> response.iterations,
          history    |-> DumpHistory(response.history)]

\* response.model_dump() of a GenerateResponse or an ErrorResponse
ModelDump(response) ==
    IF response.success
    THEN [success    |-> response.success,
          article    |-> response.article,
          iterations |-> response.iterations,
          history    |-> IF response.history = None THEN None
                         ELSE Some(DumpHistory(response.history[1]))]
    ELSE [success    |-> response.success,
          error      |-> response.error,
          iterations |-> response.iterations,
          history    |-> DumpHistory(response.history)]

\* The job dict with "iteration": 1, as if the first iteration had begun.
NewJob_IterationOne(cap) ==
    [status         |-> "running",
     iteration      |-> 1,
     max_iterations |-> cap,
     phase          |-> None,
     last_verdict   |-> None,
     result         |-> None,
     error          |-> None]

\* The job dict built by generate().
NewJob(cap) ==
    [status         |-> "running",
     iteration      |-> 0,
     max_iterations |-> cap,
     phase          |-> None,
     last_verdict   |-> None,
     result         |-> None,
     error          |-> None]

\* str(uuid.uuid4()): an id no job has.
NewJobId(js) == Cardinality(DOMAIN js) + 1

\* jobs = {job_id: job}: the registry is rebuilt around the new job.
PutJob_Replace(js, id, job) == [k \in {id} |-> job]

\* jobs[job_id] = job
PutJob(js, id, job) ==
    [k \in DOMAIN js \cup {id} |-> IF k = id THEN job ELSE js[k]]

\* The local state of a run entering run() or _execute().
NewRun(job, topic, verbose, pc) ==
    [job           |-> job,
     topic         |-> topic,
     verbose       |-> verbose,
     pc            |-> pc,
     iteration     |-> 0,
     feedback      |-> None,
     draft         |-> None,
     result        |-> None,
     history       |-> <<>>,
     response      |-> None,
     exc           |-> None,
     writer_calls  |-> <<>>,
     writer_outs   |-> <<>>,
     judge_calls   |-> <<>>,
     judge_outs    |-> <<>>]

\* ------------------------------------------------------------ run steps
\* jobs[<first id>][key] = value: the write goes through the registry to
\* one fixed job instead of through the run's own job reference.
SetItem_FirstJob(js, job, key, value) ==
    IF job = None THEN js
    ELSE [js EXCEPT ![1] = [@ EXCEPT ![key] = value]]

\* job[key] = value, under "if job is not None"
SetItem(js, job, key, value) ==
    IF job = None THEN js
    ELSE [js EXCEPT ![job[1]] = [@ EXCEPT ![key] = value]]

\* The first exception of a run is caught inside the loop and the iteration
\* is tried again; only a second exception leaves _execute().
Raised_RetryOnce(s, e) ==
    IF s.exc = None /\ s.iteration >= 1
    THEN [s EXCEPT !.exc = Some(e), !.pc = "set_phase_writing"]
    ELSE [s EXCEPT !.exc = Some(e),
                   !.pc = IF s.job = None THEN "raised" ELSE "exc_status"]

\* An exception leaves _execute(): run()'s handler writes to the job when
\* there is one; a direct call of _execute() just sees the exception.
Raised(s, e) ==
    [s EXCEPT !.exc = Some(e),
              !.pc = IF s.job = None THEN "raised" ELSE "exc_status"]

\* The loop bound read back from the job record when there is one, as
\* range(1, job["max_iterations"]).
LoopHead_CapFromRecord(s, it) ==
    IF it \in LoopRange(IF s.job = None THEN max_iterations
                        ELSE jobs[s.job[1]].max_iterations - 1)
    THEN [s EXCEPT !.iteration = it, !.pc = "set_iteration"]
    ELSE [s EXCEPT !.response = Some(ErrorResponse(max_iterations, s.history)),
                   !.pc = "set_status_error"]

\* A loop that tests its bound after the body: the first iteration always
\* runs.
LoopHead_BodyFirst(s, it) ==
    IF it = 1 \/ it \in LoopRange(max_iterations)
    THEN [s EXCEPT !.iteration = it, !.pc = "set_iteration"]
    ELSE [s EXCEPT !.response = Some(ErrorResponse(max_iterations, s.history)),
                   !.pc = "set_status_error"]

\* The head of "for iteration in range(1, max_iterations + 1)" with the next
\* value `it`: the body starts, or the loop is over and the ErrorResponse is
\* built.
LoopHead(s, it) ==
    IF it \in LoopRange(max_iterations)
    THEN [s EXCEPT !.iteration = it, !.pc = "set_iteration"]
    ELSE [s EXCEPT !.response = Some(ErrorResponse(max_iterations, s.history)),
                   !.pc = "set_status_error"]

\* The arguments of writer.write(topic=topic, feedback=feedback)
WriterCall(s) == [topic |-> s.topic, feedback |-> s.feedback]

\* judge.judge(topic=topic, article=<the first draft of the run>)
JudgeCall_FirstDraft(s) ==
    [topic |-> s.topic,
     article |-> IF s.writer_outs = <<>> THEN s.draft[1] ELSE s.writer_outs[1]]

\* The arguments of judge.judge(topic=topic, article=draft)
JudgeCall(s) == [topic |-> s.topic, article |-> s.draft[1]]

\* The pool counts a run that ended by an exception as still executing: its
\* thread is lost.
Executing_ThreadLost ==
    {r \in 1 .. Len(run) :
        run[r].job # None /\ run[r].pc \notin {"queued", "returned"}}

\* The runs a pool thread is executing.
Executing ==
    {r \in 1 .. Len(run) :
        run[r].job # None /\ run[r].pc \notin {"queued", "returned", "raised"}}

\* The work item is handed over only if a thread is idle; a submit made
\* while max_workers runs are executing queues nothing.
Schedule_IfIdle(r) ==
    IF Cardinality(Executing) < max_workers THEN <<r>> ELSE <<>>

\* _executor.submit(run, topic, verbose, job): the work items queued.
Schedule(r) == <<r>>

\* POST /api/generate
Submit(topic, verbose) ==
    LET id == NewJobId(jobs) IN
    /\ jobs' = PutJob(jobs, id, NewJob(max_iterations))
    /\ run' = Append(run, NewRun(Some(id), topic, verbose, "queued"))
    /\ queue' = queue \o Schedule(Len(run) + 1)
    /\ replies' = Append(replies, id)
    /\ UNCHANGED <<max_iterations, poll, llm, api_key, frontend>>

\* _execute(topic, verbose, writer, judge) called directly, job = None
Execute(topic, verbose) ==
    /\ run' = Append(run, LoopHead(NewRun(None, topic, verbose, "entered"), 1))
    /\ UNCHANGED <<max_iterations, jobs, queue, replies, poll, llm, api_key, frontend>>

\* A thread per submitted job: the work item starts whatever the number of
\* runs already executing.
StartRun_Unbounded(r) ==
    /\ queue # <<>>
    /\ Head(queue) = r
    /\ queue' = Tail(queue)
    /\ run' = [run EXCEPT ![r] = LoopHead(@, 1)]
    /\ UNCHANGED <<max_iterations, jobs, replies, poll, llm, api_key, frontend>>

\* A pool thread takes the oldest work item and enters run(): the agents are
\* built and _execute() reaches its first statement that touches the job.
StartRun(r) ==
    /\ queue # <<>>
    /\ Head(queue) = r
    /\ Cardinality(Executing) < max_workers
    /\ queue' = Tail(queue)
    /\ run' = [run EXCEPT ![r] = LoopHead(@, 1)]
    /\ UNCHANGED <<max_iterations, jobs, replies, poll, llm, api_key, frontend>>

\* get_llm_client(), WriterAgent(llm) or JudgeAgent(llm) raises.
StartRunRaises(r, e) ==
    /\ queue # <<>>
    /\ Head(queue) = r
    /\ Cardinality(Executing) < max_workers
    /\ queue' = Tail(queue)
    /\ run' = [run EXCEPT ![r] = Raised(@, e)]
    /\ UNCHANGED <<max_iterations, jobs, replies, poll, llm, api_key, frontend>>

\* job["iteration"] = iteration - 1: a 0-based counter.
SetIteration_ZeroBased(r) ==
    /\ r \in DOMAIN run
    /\ run[r].pc = "set_iteration"
    /\ jobs' = SetItem(jobs, run[r].job, "iteration", run[r].iteration - 1)
    /\ run' = [run EXCEPT ![r].pc = "set_phase_writing"]
    /\ UNCHANGED <<max_iterations, queue, replies, poll, llm, api_key, frontend>>

\* job["iteration"] = iteration
SetIteration(r) ==
    /\ r \in DOMAIN run
    /\ run[r].pc = "set_iteration"
    /\ jobs' = SetItem(jobs, run[r].job, "iteration", run[r].iteration)
    /\ run' = [run EXCEPT ![r].pc = "set_phase_writing"]
    /\ UNCHANGED <<max_iterations, queue, replies, poll, llm, api_key, frontend>>

\* job["phase"] = "judging" written where "writing" belongs: swapped labels.
SetPhaseWriting_Judging(r) ==
    /\ r \in DOMAIN run
    /\ run[r].pc = "set_phase_writing"
    /\ jobs' = SetItem(jobs, run[r].job, "phase", Some("judging"))
    /\ run' = [run EXCEPT ![r].writer_calls = Append(@, WriterCall(run[r])),
                          ![r].pc = "writing"]
    /\ UNCHANGED <<max_iterations, queue, replies, poll, llm, api_key, frontend>>

\* job["phase"] = "writing"; writer.write(topic=topic, feedback=feedback) starts
SetPhaseWriting(r) ==
    /\ r \in DOMAIN run
    /\ run[r].pc = "set_phase_writing"
    /\ jobs' = SetItem(jobs, run[r].job, "phase", Some("writing"))
    /\ run' = [run EXCEPT ![r].writer_calls = Append(@, WriterCall(run[r])),
                          ![r].pc = "writing"]
    /\ UNCHANGED <<max_iterations, queue, replies, poll, llm, api_key, frontend>>

\* draft = writer.write(...) returns
WriterReturns(r, d) ==
    /\ r \in DOMAIN run
    /\ run[r].pc = "writing"
    /\ run' = [run EXCEPT ![r].draft = Some(d),
                          ![r].writer_outs = Append(@, d),
                          ![r].pc = "set_phase_judging"]
    /\ UNCHANGED <<max_iterations, jobs, queue, replies, poll, llm, api_key, frontend>>

\* writer.write(...) raises
WriterRaises(r, e) ==
    /\ r \in DOMAIN run
    /\ run[r].pc = "writing"
    /\ run' = [run EXCEPT ![r] = Raised(@, e)]
    /\ UNCHANGED <<max_iterations, jobs, queue, replies, poll, llm, api_key, frontend>>

\* The Judge is called without the phase write: the record keeps "writing".
SetPhaseJudging_NoWrite(r) ==
    /\ r \in DOMAIN run
    /\ run[r].pc = "set_phase_judging"
    /\ run' = [run EXCEPT ![r].judge_calls = Append(@, JudgeCall(run[r])),
                          ![r].pc = "judging"]
    /\ UNCHANGED <<max_iterations, jobs, queue, replies, poll, llm, api_key, frontend>>

\* job["phase"] = "judging"; judge.judge(topic=topic, article=draft) starts
SetPhaseJudging(r) ==
    /\ r \in DOMAIN run
    /\ run[r].pc = "set_phase_judging"
    /\ jobs' = SetItem(jobs, run[r].job, "phase", Some("judging"))
    /\ run' = [run EXCEPT ![r].judge_calls = Append(@, JudgeCall(run[r])),
                          ![r].pc = "judging"]
    /\ UNCHANGED <<max_iterations, queue, replies, poll, llm, api_key, frontend>>

\* result = judge.judge(...) returns
JudgeReturns(r, res) ==
    /\ r \in DOMAIN run
    /\ run[r].pc = "judging"
    /\ run' = [run EXCEPT ![r].result = Some(res),
                          ![r].judge_outs = Append(@, res),
                          ![r].pc = "set_last_verdict"]
    /\ UNCHANGED <<max_iterations, jobs, queue, replies, poll, llm, api_key, frontend>>

\* judge.judge(...) raises
JudgeRaises(r, e) ==
    /\ r \in DOMAIN run
    /\ run[r].pc = "judging"
    /\ run' = [run EXCEPT ![r] = Raised(@, e)]
    /\ UNCHANGED <<max_iterations, jobs, queue, replies, poll, llm, api_key, frontend>>

\* The local state after job["last_verdict"] is written: the record is
\* appended, then either the GenerateResponse is built, or the annotations
\* become the feedback and the loop goes to its next value.
AfterVerdict(s) ==
    LET res  == s.result[1]
        hist == AppendRecord(s.history, s.iteration, s.draft[1], res)
        t    == [s EXCEPT !.history = hist]
    IN  IF Accepts(res)
        THEN [t EXCEPT
                !.response = Some(GenerateResponse(s.draft[1], s.iteration,
                                                   hist, s.verbose)),
                !.pc = "set_status_done"]
        ELSE LoopHead([t EXCEPT !.feedback = NextFeedback(s.feedback, res)],
                      s.iteration + 1)

\* job["last_verdict"] = result.verdict, then loop.py lines 94-121
RecordVerdict(r) ==
    /\ r \in DOMAIN run
    /\ run[r].pc = "set_last_verdict"
    /\ jobs' = SetItem(jobs, run[r].job, "last_verdict", Some(run[r].result[1].verdict))
    /\ run' = [run EXCEPT ![r] = AfterVerdict(@)]
    /\ UNCHANGED <<max_iterations, queue, replies, poll, llm, api_key, frontend>>

\* job["result"] = response.model_dump() written where the status belongs:
\* the two terminal writes in the other order.
SetStatusDone_ResultFirst(r) ==
    /\ r \in DOMAIN run
    /\ run[r].pc = "set_status_done"
    /\ jobs' = SetItem(jobs, run[r].job, "result", Some(ModelDump(run[r].response[1])))
    /\ run' = [run EXCEPT ![r].pc = "set_result_done"]
    /\ UNCHANGED <<max_iterations, queue, replies, poll, llm, api_key, frontend>>

\* job["status"] = "done"
SetStatusDone(r) ==
    /\ r \in DOMAIN run
    /\ run[r].pc = "set_status_done"
    /\ jobs' = SetItem(jobs, run[r].job, "status", "done")
    /\ run' = [run EXCEPT ![r].pc = "set_result_done"]
    /\ UNCHANGED <<max_iterations, queue, replies, poll, llm, api_key, frontend>>

\* The result is written and the phase is cleared now that the job is over.
SetResultDone_PhaseCleared(r) ==
    /\ r \in DOMAIN run
    /\ run[r].pc = "set_result_done"
    /\ jobs' = SetItem(SetItem(jobs, run[r].job, "result",
                               Some(ModelDump(run[r].response[1]))),
                       run[r].job, "phase", None)
    /\ run' = [run EXCEPT ![r].pc = "returned"]
    /\ UNCHANGED <<max_iterations, queue, replies, poll, llm, api_key, frontend>>

\* job["result"] = response.model_dump(); return response
SetResultDone(r) ==
    /\ r \in DOMAIN run
    /\ run[r].pc = "set_result_done"
    /\ jobs' = SetItem(jobs, run[r].job, "result", Some(ModelDump(run[r].response[1])))
    /\ run' = [run EXCEPT ![r].pc = "returned"]
    /\ UNCHANGED <<max_iterations, queue, replies, poll, llm, api_key, frontend>>

\* job["status"] = "error" (cap reached)
SetStatusError(r) ==
    /\ r \in DOMAIN run
    /\ run[r].pc = "set_status_error"
    /\ jobs' = SetItem(jobs, run[r].job, "status", "error")
    /\ run' = [run EXCEPT ![r].pc = "set_error"]
    /\ UNCHANGED <<max_iterations, queue, replies, poll, llm, api_key, frontend>>

\* job["error"] = f"Unexpected error: {error_response.error}"
SetError_Wrapped(r) ==
    /\ r \in DOMAIN run
    /\ run[r].pc = "set_error"
    /\ jobs' = SetItem(jobs, run[r].job, "error",
                       Some(UnexpectedErrorText(run[r].response[1].error)))
    /\ run' = [run EXCEPT ![r].pc = "set_result_error"]
    /\ UNCHANGED <<max_iterations, queue, replies, poll, llm, api_key, frontend>>

\* job["error"] = error_response.error
SetError(r) ==
    /\ r \in DOMAIN run
    /\ run[r].pc = "set_error"
    /\ jobs' = SetItem(jobs, run[r].job, "error", Some(run[r].response[1].error))
    /\ run' = [run EXCEPT ![r].pc = "set_result_error"]
    /\ UNCHANGED <<max_iterations, queue, replies, poll, llm, api_key, frontend>>

\* job["result"] = error_response.model_dump(); return error_response
SetResultError(r) ==
    /\ r \in DOMAIN run
    /\ run[r].pc = "set_result_error"
    /\ jobs' = SetItem(jobs, run[r].job, "result", Some(ModelDump(run[r].response[1])))
    /\ run' = [run EXCEPT ![r].pc = "returned"]
    /\ UNCHANGED <<max_iterations, queue, replies, poll, llm, api_key, frontend>>

\* except Exception as exc: job["status"] = "error"
HandlerSetStatus(r) ==
    /\ r \in DOMAIN run
    /\ run[r].pc = "exc_status"
    /\ jobs' = SetItem(jobs, run[r].job, "status", "error")
    /\ run' = [run EXCEPT ![r].pc = "exc_error"]
    /\ UNCHANGED <<max_iterations, queue, replies, poll, llm, api_key, frontend>>

\* The handler also clears the phase of the failed job.
HandlerSetError_ClearsPhase(r) ==
    /\ r \in DOMAIN run
    /\ run[r].pc = "exc_error"
    /\ jobs' = SetItem(SetItem(jobs, run[r].job, "error",
                               Some(UnexpectedErrorText(run[r].exc[1]))),
                       run[r].job, "phase", None)
    /\ run' = [run EXCEPT ![r].pc = "raised"]
    /\ UNCHANGED <<max_iterations, queue, replies, poll, llm, api_key, frontend>>

\* job["error"] = f"Unexpected error: {exc}"; raise
HandlerSetError(r) ==
    /\ r \in DOMAIN run
    /\ run[r].pc = "exc_error"
    /\ jobs' = SetItem(jobs, run[r].job, "error", Some(UnexpectedErrorText(run[r].exc[1])))
    /\ run' = [run EXCEPT ![r].pc = "raised"]
    /\ UNCHANGED <<max_iterations, queue, replies, poll, llm, api_key, frontend>>

\* raise HTTPException(status_code=404, detail="Job not found.")
NotFound(id) == [job_id |-> id, status_code |-> 404, body |-> None]

\* return jobs[job_id]
Found(id, job) == [job_id |-> id, status_code |-> 200, body |-> Some(job)]

\* return jobs.pop(job_id): the record is handed out and removed.
Poll_Pop(id) ==
    /\ poll' = Some(IF id \notin DOMAIN jobs THEN NotFound(id)
                    ELSE Found(id, jobs[id]))
    /\ jobs' = [k \in DOMAIN jobs \ {id} |-> jobs[k]]
    /\ UNCHANGED <<max_iterations, queue, run, replies, llm, api_key, frontend>>

\* GET /api/status/{job_id}
Poll(id) ==
    /\ poll' = Some(IF id \notin DOMAIN jobs THEN NotFound(id)
                    ELSE Found(id, jobs[id]))
    /\ UNCHANGED <<max_iterations, jobs, queue, run, replies, llm, api_key, frontend>>

\* raise HTTPException(status_code=401, detail="Invalid or missing API key.")
Unauthorized(id) == [job_id |-> id, status_code |-> 401, body |-> None]

\* A dependency that lets every request through while API_KEY is not set.
require_api_key_OpenWhenUnset(x_api_key) ==
    LET key == IF api_key = None THEN "" ELSE api_key[1] IN
    key = "" \/ (x_api_key # None /\ x_api_key[1] = key)

\* require_api_key(x_api_key): TRUE when it returns, FALSE when it raises 401
require_api_key(x_api_key) ==
    LET key == IF api_key = None THEN "" ELSE api_key[1] IN
    ~(\/ x_api_key = None
      \/ x_api_key[1] = ""
      \/ key = ""
      \/ x_api_key[1] # key)

\* POST /api/generate with the header x_api_key: the dependency runs first,
\* and the handler only when it returned.
Generate(x_api_key, topic, verbose) ==
    IF require_api_key(x_api_key)
    THEN Submit(topic, verbose)
    ELSE /\ poll' = Some(Unauthorized(0))
         /\ UNCHANGED <<max_iterations, jobs, queue, run, replies, llm, api_key, frontend>>

\* GET /api/status/{job_id} with the header x_api_key
Status(x_api_key, id) ==
    IF require_api_key(x_api_key)
    THEN Poll(id)
    ELSE /\ poll' = Some(Unauthorized(id))
         /\ UNCHANGED <<max_iterations, jobs, queue, run, replies, llm, api_key, frontend>>

\* ------------------------------------------------------------- frontend
\* One entry of session_calls
SessionCall(op, id) == [op |-> op, id |-> id]

\* create_session() when the id drawn is session_id: stored and returned
create_session(session_id) ==
    /\ sessions' = sessions \cup {session_id}
    /\ session_calls' = Append(session_calls, SessionCall("create_session", session_id))

\* is_valid(session_id), session_id being None or an id
is_valid(session_id) == session_id # None /\ session_id[1] \in sessions

\* _sessions.clear(): a logout that ends every session.
Discard_All(ids, session_id) == {}

\* _sessions.discard(session_id)
Discard(ids, session_id) == ids \ {session_id}

\* delete_session(session_id)
delete_session(session_id) ==
    /\ sessions' = Discard(sessions, session_id)
    /\ session_calls' = Append(session_calls, SessionCall("delete_session", session_id))

\* A direct call of create_session()
CreateSession(session_id) ==
    /\ Len(session_calls) < MaxCalls
    /\ create_session(session_id)
    /\ UNCHANGED <<max_iterations, jobs, queue, run, replies, poll, llm,
                   api_key, session_password>>

\* A call of delete_session(session_id)
DeleteSession(session_id) ==
    /\ Len(session_calls) < MaxCalls
    /\ delete_session(session_id)
    /\ UNCHANGED <<max_iterations, jobs, queue, run, replies, poll, llm,
                   api_key, session_password>>

\* POST /session with the password; session_id is the id create_session()
\* draws if it is called.
Login(password, session_id) ==
    /\ Len(session_calls) < MaxCalls
    /\ LET expected == IF session_password = None THEN ""
                       ELSE session_password[1] IN
       IF password # expected
       THEN /\ session_calls' = Append(session_calls,
                                       SessionCall("login_rejected", password))
            /\ UNCHANGED sessions
       ELSE create_session(session_id)
    /\ UNCHANGED <<max_iterations, jobs, queue, run, replies, poll, llm,
                   api_key, session_password>>

\* ---------------------------------------------------------------- agents
\* A text is the sequence of its parts; the empty text has none.
Contains(text, part) == \E i \in 1 .. Len(text) : text[i] = part

\* "\n".join(f"- {a}" for a in items)
RECURSIVE Bullets(_)
Bullets(items) ==
    IF items = <<>> THEN <<>>
    ELSE IF Len(items) = 1 THEN <<"- ", items[1]>>
    ELSE <<"- ", items[1], "\n">> \o Bullets(Tail(items))

\* ", ".join(items)
RECURSIVE CommaJoin(_)
CommaJoin(items) ==
    IF items = <<>> THEN <<>>
    ELSE IF Len(items) = 1 THEN <<items[1]>>
    ELSE <<items[1], ", ">> \o CommaJoin(Tail(items))

\* template.format(**values): every part of the template that is a
\* placeholder "{name}" is replaced by the text given for that name.
RECURSIVE Format(_, _)
Format(template, values) ==
    IF template = <<>> THEN <<>>
    ELSE (IF Head(template) \in DOMAIN values
          THEN values[Head(template)]
          ELSE <<Head(template)>>) \o Format(Tail(template), values)

\* "if feedback is not None:" -- an empty list counts as feedback
HasFeedback_NotNone(feedback) == feedback # None

\* "if feedback:" -- neither None nor an empty list
HasFeedback(feedback) == feedback # None /\ feedback[1] # <<>>

\* writer._PLAN_SYSTEM_PROMPT, writer._SEARCH_SYSTEM_PROMPT
PLAN_SYSTEM_PROMPT == <<"You are a research planner preparing to write a factual article. ...">>
SEARCH_SYSTEM_PROMPT == <<"You are a research assistant executing a search plan for an article writer. ...">>

WEB_SEARCH_TOOL == [type |-> "web_search_20250305", name |-> "web_search"]

\* {**WEB_SEARCH_TOOL, "max_uses": 2}
WEB_SEARCH_TOOL_2 ==
    [type |-> "web_search_20250305", name |-> "web_search", max_uses |-> 2]

Message(role, content) == [role |-> role, content |-> content]

\* self._llm.complete(system_prompt=..., messages=..., tools=...)
Complete(system_prompt, messages, tools) ==
    [method        |-> "complete",
     system_prompt |-> system_prompt,
     messages      |-> messages,
     tools         |-> tools]

\* The plan query built from the topic alone, also on a revision round.
Writer_build_plan_query_TopicOnly(topic, feedback) ==
    <<"Article topic: ", topic, "\n\n",
      "What 1-2 searches will give the most important current facts for this article?">>

\* WriterAgent._build_plan_query
Writer_build_plan_query(topic, feedback) ==
    IF HasFeedback(feedback)
    THEN <<"Article topic: ", topic, "\n\n",
           "The previous draft was rejected for these factual errors:\n">>
         \o Bullets(feedback[1])
         \o <<"\n\n",
              "What 1-2 searches will find the correct information to fix these issues?">>
    ELSE <<"Article topic: ", topic, "\n\n",
           "What 1-2 searches will give the most important current facts for this article?">>

\* The rules_text of WriterAgent._build_system_prompt
RulesText(rules) ==
    <<"Article structure rules:\n",
      "- Maximum word count: ", ToString(rules.max_word_count), "\n",
      "- Maximum paragraph count: ", ToString(rules.max_paragraph_count), "\n",
      "- Required sections (in order): ">>
    \o CommaJoin(rules.required_sections)
    \o <<"\n", "- Tone: ", rules.tone>>

\* The feedback_text of WriterAgent._build_system_prompt
FeedbackText(feedback) ==
    IF HasFeedback(feedback)
    THEN <<"Feedback from the previous review:\n">> \o Bullets(feedback[1])
    ELSE <<>>

\* WriterAgent._build_system_prompt
Writer_build_system_prompt(config, topic, feedback, research) ==
    Format(config.system_prompt,
           [x \in {"{topic}", "{feedback}"} |->
               IF x = "{topic}" THEN <<topic>> ELSE FeedbackText(feedback)])
    \o <<"\n\n",
         "Research findings - use these as your sole factual foundation. ",
         "Do not state facts not supported by this research:\n">>
    \o research
    \o <<"\n\n">>
    \o RulesText(config.article_rules)

\* No agent invocation is under way.
Idle ==
    [agent |-> "none", pc |-> "idle", config |-> None, topic |-> None,
     feedback |-> None, article |-> None, calls |-> <<>>, outs |-> <<>>,
     ret |-> None, exc |-> None]

\* writer.write(topic, feedback) is called: _research() builds the plan query
\* and makes the plan call.
WriteBegins(config, topic, feedback) ==
    /\ llm.pc = "idle"
    /\ llm' = [Idle EXCEPT
                 !.agent = "writer", !.pc = "plan", !.config = Some(config),
                 !.topic = Some(topic), !.feedback = feedback,
                 !.calls = <<Complete(PLAN_SYSTEM_PROMPT,
                                      <<Message("user",
                                          Writer_build_plan_query(topic, feedback))>>,
                                      None)>>]
    /\ UNCHANGED <<max_iterations, jobs, queue, run, replies, poll, api_key, frontend>>

\* plan = self._llm.complete(...) returns: the search call is made with the
\* plan as the assistant turn.
PlanReturns(text) ==
    /\ llm.agent = "writer"
    /\ llm.pc = "plan"
    /\ LET plan_query == llm.calls[1].messages[1].content IN
       llm' = [llm EXCEPT
                 !.outs = Append(@, text),
                 !.pc = "search",
                 !.calls = Append(@,
                     Complete(SEARCH_SYSTEM_PROMPT,
                              <<Message("user", plan_query),
                                Message("assistant", text),
                                Message("user",
                                    <<"Execute those searches now and summarise what you find.">>)>>,
                              Some(<<WEB_SEARCH_TOOL_2>>)))]
    /\ UNCHANGED <<max_iterations, jobs, queue, run, replies, poll, api_key, frontend>>

\* _research() returns the search call's text: _write() builds the system
\* prompt and makes the write call.
SearchReturns(text) ==
    /\ llm.agent = "writer"
    /\ llm.pc = "search"
    /\ llm' = [llm EXCEPT
                 !.outs = Append(@, text),
                 !.pc = "write",
                 !.calls = Append(@,
                     Complete(Writer_build_system_prompt(llm.config[1],
                                  llm.topic[1], llm.feedback, text),
                              <<Message("user", <<"Write the article now.">>)>>,
                              None))]
    /\ UNCHANGED <<max_iterations, jobs, queue, run, replies, poll, api_key, frontend>>

\* write() returns the research text instead of the write call's text.
WriteReturns_Research(text) ==
    /\ llm.agent = "writer"
    /\ llm.pc = "write"
    /\ llm' = [llm EXCEPT !.outs = Append(@, text),
                          !.ret = Some(llm.outs[2]),
                          !.pc = "returned"]
    /\ UNCHANGED <<max_iterations, jobs, queue, run, replies, poll, api_key, frontend>>

\* return self._llm.complete(system_prompt=system_prompt, messages=messages)
WriteReturns(text) ==
    /\ llm.agent = "writer"
    /\ llm.pc = "write"
    /\ llm' = [llm EXCEPT !.outs = Append(@, text),
                          !.ret = Some(text),
                          !.pc = "returned"]
    /\ UNCHANGED <<max_iterations, jobs, queue, run, replies, poll, api_key, frontend>>

\* A completion call raises: nothing in the agents catches it.
CompleteRaises(e) ==
    /\ llm.pc \in {"plan", "search", "write", "research", "verdict"}
    /\ llm' = [llm EXCEPT !.exc = Some(e), !.pc = "raised"]
    /\ UNCHANGED <<max_iterations, jobs, queue, run, replies, poll, api_key, frontend>>

\* The invocation is over; the agent can be called again.
AgentDone ==
    /\ llm.pc \in {"returned", "raised"}
    /\ llm' = Idle
    /\ UNCHANGED <<max_iterations, jobs, queue, run, replies, poll, api_key, frontend>>

\* str(a)
Str(a) == IF "int" \in DOMAIN a THEN ToString(a.int) ELSE a.str

\* judge.VERDICT_TOOL
VERDICT_TOOL ==
    [name |-> "submit_verdict", required |-> <<"verdict", "annotations">>]

\* self._llm.complete_structured(system_prompt=..., messages=..., tool=...)
CompleteStructured(system_prompt, messages, tool) ==
    [method        |-> "complete_structured",
     system_prompt |-> system_prompt,
     messages      |-> messages,
     tool          |-> tool]

\* JudgeAgent._build_system_prompt
Judge_build_system_prompt(config, topic, article) ==
    Format(config.system_prompt,
           [x \in {"{topic}", "{article}"} |->
               IF x = "{topic}" THEN <<topic>> ELSE article])
    \o <<"\n", "Acceptance criteria:\n">>
    \o Bullets(config.acceptance_criteria)

\* data.get("annotations") or []
AnnotationsOrEmpty(data) ==
    IF data.annotations.kind = "list" THEN data.annotations.items ELSE <<>>

\* JudgeResult(verdict=data["verdict"],
\*             annotations=[str(a) for a in (data.get("annotations") or [])])
JudgeResultOf(data) ==
    [verdict     |-> data.verdict,
     annotations |-> [i \in 1 .. Len(AnnotationsOrEmpty(data)) |->
                         Str(AnnotationsOrEmpty(data)[i])]]

\* judge.judge(topic, article) is called: the system prompt is built and the
\* research call is made with the web search tool.
JudgeBegins(config, topic, article) ==
    /\ llm.pc = "idle"
    /\ llm' = [Idle EXCEPT
                 !.agent = "judge", !.pc = "research", !.config = Some(config),
                 !.topic = Some(topic), !.article = Some(article),
                 !.calls = <<Complete(Judge_build_system_prompt(config, topic, article),
                                      <<Message("user", <<"Review the article now.">>)>>,
                                      Some(<<WEB_SEARCH_TOOL>>))>>]
    /\ UNCHANGED <<max_iterations, jobs, queue, run, replies, poll, api_key, frontend>>

\* The verdict call made without the research text in its conversation.
ResearchReturns_NoContext(text) ==
    /\ llm.agent = "judge"
    /\ llm.pc = "research"
    /\ llm' = [llm EXCEPT
                 !.outs = Append(@, text),
                 !.pc = "verdict",
                 !.calls = Append(@,
                     CompleteStructured(llm.calls[1].system_prompt,
                         llm.calls[1].messages
                         \o <<Message("user", <<"Submit your verdict now.">>)>>,
                         VERDICT_TOOL))]
    /\ UNCHANGED <<max_iterations, jobs, queue, run, replies, poll, api_key, frontend>>

\* research = self._llm.complete(...) returns: the verdict call is made with
\* the research appended to the conversation.
ResearchReturns(text) ==
    /\ llm.agent = "judge"
    /\ llm.pc = "research"
    /\ llm' = [llm EXCEPT
                 !.outs = Append(@, text),
                 !.pc = "verdict",
                 !.calls = Append(@,
                     CompleteStructured(llm.calls[1].system_prompt,
                         llm.calls[1].messages
                         \o <<Message("assistant", text),
                              Message("user", <<"Submit your verdict now.">>)>>,
                         VERDICT_TOOL))]
    /\ UNCHANGED <<max_iterations, jobs, queue, run, replies, poll, api_key, frontend>>

\* data = self._llm.complete_structured(...) returns; return JudgeResult(...)
VerdictReturns(data) ==
    /\ llm.agent = "judge"
    /\ llm.pc = "verdict"
    /\ llm' = [llm EXCEPT !.outs = Append(@, data),
                          !.ret = Some(JudgeResultOf(data)),
                          !.pc = "returned"]
    /\ UNCHANGED <<max_iterations, jobs, queue, run, replies, poll, api_key, frontend>>

\* str.lower() on the verdict values explored
Lower(v) == IF v = "Pass" THEN "pass" ELSE v

\* raise ValueError(...) with the reason that identifies the check
ParseError(reason) == [type |-> "ValueError", reason |-> reason]

\* The parser that reports an invalid verdict before a missing one cannot
\* exist; this one tests the annotations before the verdict's value.
_parse_verdict_AnnotationsFirst(text) ==
    IF text.syntax # "ok"
    THEN [ok |-> FALSE, error |-> ParseError("malformed-structure")]
    ELSE IF text.shape # "mapping"
    THEN [ok |-> FALSE, error |-> ParseError("wrong-shape")]
    ELSE IF text.verdict = None
    THEN [ok |-> FALSE, error |-> ParseError("missing-field")]
    ELSE IF text.annotations.kind = "scalar"
    THEN [ok |-> FALSE, error |-> ParseError("wrong-type")]
    ELSE IF Lower(text.verdict[1]) \notin {"pass", "fail"}
    THEN [ok |-> FALSE, error |-> ParseError("invalid-enum")]
    ELSE [ok |-> TRUE,
          result |-> [verdict     |-> Lower(text.verdict[1]),
                      annotations |-> text.annotations.items]]

\* _parse_verdict(text): the five checks in order, then the JudgeResult
_parse_verdict(text) ==
    IF text.syntax # "ok"
    THEN [ok |-> FALSE, error |-> ParseError("malformed-structure")]
    ELSE IF text.shape # "mapping"
    THEN [ok |-> FALSE, error |-> ParseError("wrong-shape")]
    ELSE IF text.verdict = None
    THEN [ok |-> FALSE, error |-> ParseError("missing-field")]
    ELSE IF Lower(text.verdict[1]) \notin {"pass", "fail"}
    THEN [ok |-> FALSE, error |-> ParseError("invalid-enum")]
    ELSE IF text.annotations.kind = "scalar"
    THEN [ok |-> FALSE, error |-> ParseError("wrong-type")]
    ELSE [ok |-> TRUE,
          result |-> [verdict     |-> Lower(text.verdict[1]),
                      annotations |-> text.annotations.items]]

\* The Judge call of run r under way has returned `text`, and the parser runs
\* on it: it returns the JudgeResult or raises.
ParseBegins(r, text) ==
    /\ r \in DOMAIN run
    /\ run[r].pc = "judging"
    /\ llm.pc = "idle"
    /\ LET out == _parse_verdict(text) IN
       llm' = [Idle EXCEPT
                 !.agent = "parser",
                 !.article = Some(text),
                 !.calls = <<r>>,
                 !.pc = IF out.ok THEN "returned" ELSE "raised",
                 !.ret = IF out.ok THEN Some(out.result) ELSE None,
                 !.exc = IF out.ok THEN None ELSE Some(out.error)]
    /\ UNCHANGED <<max_iterations, jobs, queue, run, replies, poll, api_key, frontend>>

\* judge() returns what the parser returned.
ParsedJudgeReturns(r) ==
    /\ llm.agent = "parser"
    /\ llm.calls = <<r>>
    /\ llm.pc = "returned"
    /\ JudgeReturns(r, llm.ret[1])

\* The parser's exception leaves judge().
ParsedJudgeRaises(r) ==
    /\ llm.agent = "parser"
    /\ llm.calls = <<r>>
    /\ llm.pc = "raised"
    /\ JudgeRaises(r, llm.exc[1])

\* The parser's frame is gone once judge() has returned or raised.
ParseEnds(r) ==
    /\ llm.agent = "parser"
    /\ llm.calls = <<r>>
    /\ r \in DOMAIN run
    /\ run[r].pc # "judging"
    /\ llm' = Idle
    /\ UNCHANGED <<max_iterations, jobs, queue, run, replies, poll, api_key, frontend>>

\* ------------------------------------------------------ specifications

InitWith(caps) ==
    /\ max_iterations \in caps
    /\ jobs = <<>>
    /\ queue = <<>>
    /\ run = <<>>
    /\ replies = <<>>
    /\ poll = None
    /\ llm = Idle
    /\ api_key = Some(TEST_API_KEY)
    /\ sessions = {}
    /\ session_calls = <<>>
    /\ session_password = None

\* One step of run r in which no call raises, the agents answering from the
\* given sets.
RunStep(r, drafts, results) ==
    \/ StartRun(r)
    \/ SetIteration(r)
    \/ SetPhaseWriting(r)
    \/ \E d \in drafts : WriterReturns(r, d)
    \/ SetPhaseJudging(r)
    \/ \E res \in results : JudgeReturns(r, res)
    \/ RecordVerdict(r)
    \/ SetStatusDone(r)
    \/ SetResultDone(r)
    \/ SetStatusError(r)
    \/ SetError(r)
    \/ SetResultError(r)

\* One step of run r in which a call raises, or run()'s handler acts.
RaiseStep(r, excs) ==
    \/ \E e \in excs : StartRunRaises(r, e)
    \/ \E e \in excs : WriterRaises(r, e)
    \/ \E e \in excs : JudgeRaises(r, e)
    \/ HandlerSetStatus(r)
    \/ HandlerSetError(r)

\* The loop specification: one run, started either way, every agent answer.
Init == InitWith(0 .. MaxCap)

Next ==
    \/ \E t \in Topics, v \in BOOLEAN : run = <<>> /\ Submit(t, v)
    \/ \E t \in Topics, v \in BOOLEAN : run = <<>> /\ Execute(t, v)
    \/ \E r \in {1} : RunStep(r, Drafts, JudgeResults)
    \/ \E r \in {1} : RaiseStep(r, Exceptions)

Spec == Init /\ [][Next]_vars

\* The job specification: up to MaxJobs jobs submitted and run concurrently,
\* the agents answering from smaller sets.
JobDrafts == {"draft 1"}
JobPass == [verdict |-> "pass", annotations |-> <<>>]
JobFail == [verdict |-> "fail", annotations |-> <<"issue A">>]
JobCaps == {1, 2}

JobInit == InitWith(JobCaps)

JobNext ==
    \/ \E t \in Topics, v \in BOOLEAN : Len(run) < MaxJobs /\ Submit(t, v)
    \/ \E r \in 1 .. MaxJobs : RunStep(r, JobDrafts, {JobPass, JobFail})
    \/ \E r \in 1 .. MaxJobs : RaiseStep(r, Exceptions)

JobSpec == JobInit /\ [][JobNext]_vars

\* The pool specification: more jobs than the pool has threads.  Every call
\* returns and the Judge accepts; the cap of 0 gives the runs that end in the
\* cap error.
PoolCaps == {0, 1}

PoolInit == InitWith(PoolCaps)

PoolNext ==
    \/ \E t \in Topics : Len(run) < MaxPoolJobs /\ Submit(t, FALSE)
    \/ \E r \in 1 .. MaxPoolJobs : RunStep(r, JobDrafts, {JobPass})

PoolSpec == PoolInit /\ [][PoolNext]_vars

\* The poll specification: up to MaxJobs jobs run concurrently while status
\* queries, for their ids and for an id no job has, read the registry.
PollCaps == {2}

PollInit == InitWith(PollCaps)

PollNext ==
    \/ \E t \in Topics : Len(run) < MaxJobs /\ Submit(t, FALSE)
    \/ \E r \in 1 .. MaxJobs : RunStep(r, JobDrafts, {JobPass, JobFail})
    \/ \E id \in 1 .. MaxJobs + 1 : Poll(id)

PollSpec == PollInit /\ [][PollNext]_vars

\* The fair specification: the pool specification in which the construction
\* of the agents may fail for the first job, and a thread that can take a
\* step (start a queued run, return from an agent call, write to its job)
\* eventually takes one.
FairCaps == {0, 1}

Failing == {1}

FairInit == InitWith(FairCaps)

FairWork ==
    \/ \E r \in 1 .. MaxPoolJobs : RunStep(r, JobDrafts, {JobPass})
    \/ \E r \in Failing : \E e \in Exceptions : StartRunRaises(r, e)
    \/ \E r \in Failing : HandlerSetStatus(r)
    \/ \E r \in Failing : HandlerSetError(r)

FairNext ==
    \/ \E t \in Topics : Len(run) < MaxPoolJobs /\ Submit(t, FALSE)
    \/ FairWork

FairSpec == FairInit /\ [][FairNext]_vars /\ WF_vars(FairWork)

\* The pair specification: one topic is run twice under the same cap and
\* verbose flag, first as a background job (run 1), then by a direct call of
\* _execute() without a job (run 2); the agents answer each call freely, by a
\* draft, a verdict or an exception.
PairCaps == {1, 2}

PairInit == InitWith(PairCaps)

PairNext ==
    \/ \E t \in Topics, v \in BOOLEAN : run = <<>> /\ Submit(t, v)
    \/ \E t \in Topics, v \in BOOLEAN :
          /\ Len(run) = 1
          /\ t = run[1].topic
          /\ v = run[1].verbose
          /\ Execute(t, v)
    \/ \E r \in {1, 2} : RunStep(r, Drafts, {JobPass, JobFail})
    \/ \E r \in {1, 2} : \E e \in Exceptions : WriterRaises(r, e)
    \/ \E r \in {1, 2} : \E e \in Exceptions : JudgeRaises(r, e)
    \/ \E r \in {1, 2} : HandlerSetStatus(r)
    \/ \E r \in {1, 2} : HandlerSetError(r)

PairSpec == PairInit /\ [][PairNext]_vars

\* The agent specification: the Writer and the Judge are called, one
\* invocation at a time, with every argument and configuration, and every
\* completion call returns any value or raises.
AgentInit == InitWith({1})

AgentNext ==
    \/ \E c \in WriterConfigs, t \in Topics, f \in Feedbacks : WriteBegins(c, t, f)
    \/ \E text \in Texts : PlanReturns(text)
    \/ \E text \in Texts : SearchReturns(text)
    \/ \E text \in Texts : WriteReturns(text)
    \/ \E c \in JudgeConfigs, t \in Topics, a \in Articles : JudgeBegins(c, t, a)
    \/ \E text \in Texts : ResearchReturns(text)
    \/ \E data \in StructuredData : VerdictReturns(data)
    \/ \E e \in Exceptions : CompleteRaises(e)
    \/ AgentDone

AgentSpec == AgentInit /\ [][AgentNext]_vars

\* The parse specification: one background job whose Judge answers in free
\* text, every text the parser can tell apart.
ParseCaps == {1, 2}

ParseInit == InitWith(ParseCaps)

ParseNext ==
    \/ \E t \in Topics : run = <<>> /\ Submit(t, TRUE)
    \/ \E r \in {1} : StartRun(r)
    \/ \E r \in {1} : SetIteration(r)
    \/ \E r \in {1} : SetPhaseWriting(r)
    \/ \E r \in {1} : \E d \in JobDrafts : WriterReturns(r, d)
    \/ \E r \in {1} : SetPhaseJudging(r)
    \/ \E r \in {1} : \E text \in VerdictTexts : ParseBegins(r, text)
    \/ \E r \in {1} : ParsedJudgeReturns(r)
    \/ \E r \in {1} : ParsedJudgeRaises(r)
    \/ \E r \in {1} : ParseEnds(r)
    \/ \E r \in {1} : RecordVerdict(r)
    \/ \E r \in {1} : SetStatusDone(r)
    \/ \E r \in {1} : SetResultDone(r)
    \/ \E r \in {1} : SetStatusError(r)
    \/ \E r \in {1} : SetError(r)
    \/ \E r \in {1} : SetResultError(r)
    \/ \E r \in {1} : HandlerSetStatus(r)
    \/ \E r \in {1} : HandlerSetError(r)

ParseSpec == ParseInit /\ [][ParseNext]_vars

\* The request specification: the API with API_KEY unset, empty or set,
\* requests with every header, and up to two jobs running.
AuthCaps == {1}

AuthInit ==
    /\ max_iterations \in AuthCaps
    /\ jobs = <<>>
    /\ queue = <<>>
    /\ run = <<>>
    /\ replies = <<>>
    /\ poll = None
    /\ llm = Idle
    /\ api_key \in ApiKeys
    /\ sessions = {}
    /\ session_calls = <<>>
    /\ session_password = None

AuthNext ==
    \/ \E h \in Headers : \E t \in Topics :
           Len(run) < 2 /\ Generate(h, t, FALSE)
    \/ \E h \in Headers : \E id \in {1, 2, 3} : Status(h, id)
    \/ \E r \in {1, 2} : RunStep(r, JobDrafts, {JobPass, JobFail})

AuthSpec == AuthInit /\ [][AuthNext]_vars

\* The session specification: logins with every password and calls of the
\* session store, up to MaxCalls of them, with the password set or unset.
SessionInit ==
    /\ max_iterations = 1
    /\ jobs = <<>>
    /\ queue = <<>>
    /\ run = <<>>
    /\ replies = <<>>
    /\ poll = None
    /\ llm = Idle
    /\ api_key = Some(TEST_API_KEY)
    /\ sessions = {}
    /\ session_calls = <<>>
    /\ session_password \in SessionPasswords

SessionNext ==
    \/ \E password \in Passwords, id \in Tokens : Login(password, id)
    \/ \E id \in Tokens : CreateSession(id)
    \/ \E id \in Tokens : DeleteSession(id)

SessionSpec == SessionInit /\ [][SessionNext]_vars

\* ------------------------------------------------------------ the claims

RunIds == 1 .. Len(run)

\* Every Judge call of run r that has returned, returned "fail".
AllFail(r) ==
    \A i \in 1 .. Len(run[r].judge_outs) : run[r].judge_outs[i].verdict = "fail"

\* Judge call k of run r returned the first "pass" of the run.
FirstPassAt(r, k) ==
    /\ k \in 1 .. Len(run[r].judge_outs)
    /\ run[r].judge_outs[k].verdict = "pass"
    /\ \A i \in 1 .. k - 1 : run[r].judge_outs[i].verdict # "pass"

Items(seq) == {seq[i] : i \in 1 .. Len(seq)}

CapPath == {"set_status_error", "set_error", "set_result_error", "returned"}
AcceptPath == {"set_status_done", "set_result_done", "returned"}

\* C1 (cap invariant): with a cap of at least 1, a run whose Judge calls all
\* return "fail" never makes more than cap Writer calls or cap Judge calls;
\* once the cap-th "fail" is recorded it makes no further call and does not
\* raise, and when it has returned it has made exactly cap Writer calls and
\* cap Judge calls and its return value is an ErrorResponse with
\* iterations = cap, a history of cap records and an error text that
\* contains the cap.
C1_CapInvariant ==
    \A r \in RunIds :
        (max_iterations >= 1 /\ AllFail(r)) =>
            LET s == run[r] IN
            /\ Len(s.writer_calls) <= max_iterations
            /\ Len(s.judge_calls) <= max_iterations
            /\ (Len(s.judge_outs) = max_iterations /\ s.pc # "set_last_verdict")
                   => s.pc \in CapPath
            /\ s.pc \in CapPath =>
                   /\ Len(s.writer_calls) = max_iterations
                   /\ Len(s.judge_calls) = max_iterations
                   /\ Len(s.judge_outs) = max_iterations
                   /\ s.response # None
                   /\ s.response[1].success = FALSE
                   /\ s.response[1].iterations = max_iterations
                   /\ Len(s.response[1].history) = max_iterations
                   /\ ToString(max_iterations) \in Items(s.response[1].error)

\* A run under a cap of 3 has returned after three "fail" verdicts.
C1_Witness ==
    \E r \in RunIds :
        /\ max_iterations = 3
        /\ AllFail(r)
        /\ r \in DOMAIN run
    /\ run[r].pc = "returned"
        /\ Len(run[r].judge_outs) = 3

\* C2 (early accept): if Judge call k returned the first "pass" of a run,
\* then k <= cap, the run has made exactly k Writer calls and k Judge calls
\* and makes no more, and its return value is a GenerateResponse with
\* iterations = k and article = the output of Writer call k.
C2_EarlyAccept ==
    \A r \in RunIds : \A k \in 1 .. Len(run[r].judge_outs) :
        FirstPassAt(r, k) =>
            LET s == run[r] IN
            /\ k <= max_iterations
            /\ Len(s.judge_outs) = k
            /\ Len(s.judge_calls) = k
            /\ Len(s.writer_calls) = k
            /\ s.pc \in AcceptPath \cup {"set_last_verdict"}
            /\ s.pc \in AcceptPath =>
                   /\ s.response # None
                   /\ s.response[1].success = TRUE
                   /\ s.response[1].iterations = k
                   /\ s.response[1].article = s.writer_outs[k]

\* A run has returned after a "pass" at its second iteration, the two drafts
\* being different.
C2_Witness ==
    \E r \in RunIds :
        /\ FirstPassAt(r, 2)
        /\ r \in DOMAIN run
    /\ run[r].pc = "returned"
        /\ run[r].writer_outs[1] # run[r].writer_outs[2]

\* C3 (feedback threading): Writer call 1 receives feedback = None, and
\* Writer call i+1 receives as feedback the annotations returned by Judge
\* call i, item for item and in order.
C3_FeedbackThreading ==
    \A r \in RunIds :
        LET s == run[r] IN
        /\ Len(s.writer_calls) >= 1 => s.writer_calls[1].feedback = None
        /\ \A i \in 1 .. Len(s.writer_calls) - 1 :
               /\ i <= Len(s.judge_outs)
               /\ s.writer_calls[i + 1].feedback # None
               /\ s.writer_calls[i + 1].feedback[1] = s.judge_outs[i].annotations

\* A second Writer call has been made after a verdict with two annotations.
C3_Witness ==
    \E r \in RunIds :
        /\ Len(run[r].writer_calls) >= 2
        /\ run[r].judge_outs[1].annotations = <<"issue B", "issue A">>

\* C4 (replacement, not accumulation): the feedback of Writer call i+2 holds
\* only annotations of Judge call i+1, and as many as that call returned;
\* an annotation returned only by Judge call i or earlier is not in it.
C4_FeedbackReplaced ==
    \A r \in RunIds :
        LET s == run[r] IN
        \A i \in 1 .. Len(s.writer_calls) - 2 :
            LET fb == s.writer_calls[i + 2].feedback[1] IN
            /\ Items(fb) \subseteq Items(s.judge_outs[i + 1].annotations)
            /\ Len(fb) = Len(s.judge_outs[i + 1].annotations)
            /\ \A h \in 1 .. i :
                   \A a \in Items(s.judge_outs[h].annotations) :
                       a \notin Items(s.judge_outs[i + 1].annotations)
                           => a \notin Items(fb)

\* A third Writer call has been made; "issue B" was returned by the first
\* Judge call only.
C4_Witness ==
    \E r \in RunIds :
        /\ Len(run[r].writer_calls) >= 3
        /\ run[r].judge_outs[1].annotations = <<"issue B", "issue A">>
        /\ run[r].judge_outs[2].annotations = <<"issue A">>

\* C5 (verbosity): a GenerateResponse a run builds carries the whole history
\* (one record per iteration, iterations of them) when verbose is true and
\* history = None when it is false; an ErrorResponse carries the whole
\* history (max_iterations records), whatever verbose is.
C5_Verbosity ==
    \A r \in RunIds :
        LET s == run[r] IN
        s.response # None =>
            LET resp == s.response[1] IN
            /\ Len(s.history) = resp.iterations
            /\ (resp.success /\ s.verbose) => resp.history = Some(s.history)
            /\ (resp.success /\ ~s.verbose) => resp.history = None
            /\ ~resp.success => resp.history = s.history

\* A run with verbose = FALSE has returned a GenerateResponse after two
\* iterations.
C5_Witness ==
    \E r \in RunIds :
        /\ r \in DOMAIN run
    /\ run[r].pc = "returned"
        /\ ~run[r].verbose
        /\ run[r].response[1].success
        /\ Len(run[r].history) = 2

\* C6 (strict alternation): in every state of a run the calls started and
\* returned are ordered  Judge returns <= Judge calls <= Writer returns <=
\* Writer calls <= Judge returns + 1, so that the calls happen in the order
\* G1, R1, G2, R2, ... with Writer call n+1 starting only after Judge call n
\* has returned; and Judge call n receives the draft Writer call n returned.
C6_StrictAlternation ==
    \A r \in RunIds :
        LET s == run[r] IN
        /\ Len(s.judge_outs) <= Len(s.judge_calls)
        /\ Len(s.judge_calls) <= Len(s.writer_outs)
        /\ Len(s.writer_outs) <= Len(s.writer_calls)
        /\ Len(s.writer_calls) <= Len(s.judge_outs) + 1
        /\ \A n \in 1 .. Len(s.judge_calls) :
               s.judge_calls[n].article = s.writer_outs[n]

\* The second Judge call is in flight, on a second draft that differs from
\* the first.
C6_Witness ==
    \E r \in RunIds :
        /\ r \in DOMAIN run
    /\ run[r].pc = "judging"
        /\ Len(run[r].judge_calls) = 2
        /\ run[r].writer_outs[1] # run[r].writer_outs[2]

\* The history of run r in a state agrees with the agents' outputs.
HistoryFaithful(r) ==
    LET s == run[r] IN
    /\ Len(s.history) =
           IF s.pc = "set_last_verdict" THEN Len(s.judge_outs) - 1
           ELSE Len(s.judge_outs)
    /\ \A i \in 1 .. Len(s.history) :
           /\ s.history[i].iteration = i
           /\ s.history[i].writer_output = s.writer_outs[i]
           /\ s.history[i].judge_verdict = s.judge_outs[i].verdict
           /\ s.history[i].judge_annotations = s.judge_outs[i].annotations

\* C7 (history fidelity, append-only): in every state the i-th record of a
\* run's history has iteration = i, the output of Writer call i and the
\* verdict and annotations of Judge call i, one record for every verdict
\* recorded; and every step leaves the history as it is or appends exactly
\* one record to it, the records it had staying what and where they were.
C7_HistoryAppendOnly ==
    /\ [](\A r \in RunIds : HistoryFaithful(r))
    /\ [][\A r \in RunIds :
             \/ run'[r].history = run[r].history
             \/ /\ Len(run'[r].history) = Len(run[r].history) + 1
                /\ SubSeq(run'[r].history, 1, Len(run[r].history)) = run[r].history
         ]_vars

\* A run holds two records, of different drafts.
C7_Witness ==
    \E r \in RunIds :
        /\ Len(run[r].history) = 2
        /\ run[r].history[1].writer_output # run[r].history[2].writer_output

\* The run that was scheduled for job id.
RunsOf(id) == {r \in RunIds : run[r].job = Some(id)}

\* C8 (submit): POST /api/generate is enabled in every state, whatever the
\* pool is doing; each of its steps puts one new record under an id no job
\* had, with status = running, iteration = 0, phase = None, last_verdict =
\* None, result = None, error = None and max_iterations = the configured
\* cap, leaves every other record and run as it was, and replies with that
\* id while the job's run is still queued and has made no Writer or Judge
\* call.
C8_Submit ==
    /\ [](ENABLED (\E t \in Topics : Submit(t, FALSE)))
    /\ [][Len(replies') = Len(replies) + 1 =>
            LET id == replies'[Len(replies')]
                r  == Len(run')
            IN  /\ id \notin DOMAIN jobs
                /\ DOMAIN jobs' = DOMAIN jobs \cup {id}
                /\ jobs'[id] = [status         |-> "running",
                                iteration      |-> 0,
                                max_iterations |-> max_iterations,
                                phase          |-> None,
                                last_verdict   |-> None,
                                result         |-> None,
                                error          |-> None]
                /\ \A k \in DOMAIN jobs : jobs'[k] = jobs[k]
                /\ Len(run') = Len(run) + 1
                /\ \A q \in RunIds : run'[q] = run[q]
                /\ run'[r].job = Some(id)
                /\ run'[r].pc = "queued"
                /\ run'[r].writer_calls = <<>>
                /\ run'[r].judge_calls = <<>>
         ]_vars

\* All four pool threads are busy, and the job submitted last has its id
\* returned and its record as created, its run waiting in the queue.
C8_Witness ==
    /\ Cardinality(Executing) = max_workers
    /\ replies # <<>>
    /\ LET id == replies[Len(replies)] IN
       /\ jobs[id].status = "running"
       /\ jobs[id].iteration = 0
       /\ jobs[id].phase = None
       /\ \A r \in RunsOf(id) : run[r].pc = "queued" /\ r \in Items(queue)

\* C9 (single writer per job): every job has exactly one run, which is in
\* the pool's queue exactly once while it waits and never again once it has
\* started; and a step that changes a job's record is a step of that job's
\* run, which is executing, and changes no other run and no other job's
\* record.
C9_SingleWriter ==
    /\ [](\A id \in DOMAIN jobs : Cardinality(RunsOf(id)) = 1)
    /\ [](\A r \in RunIds :
             Cardinality({i \in 1 .. Len(queue) : queue[i] = r})
                 = IF run[r].pc = "queued" THEN 1 ELSE 0)
    /\ [][\A r \in RunIds : run[r].pc # "queued" => run'[r].pc # "queued"]_vars
    /\ [][\A id \in DOMAIN jobs :
             jobs'[id] # jobs[id] =>
                 /\ \E r \in RunsOf(id) :
                        /\ r \in Executing
                        /\ run'[r] # run[r]
                        /\ \A q \in RunIds \ {r} : run'[q] = run[q]
                 /\ \A k \in DOMAIN jobs \ {id} : jobs'[k] = jobs[k]
         ]_vars

\* Two jobs are being executed at once, one in its Writer call and one in
\* its Judge call.
C9_Witness ==
    \E r1, r2 \in Executing :
        /\ run[r1].pc = "writing"
        /\ run[r2].pc = "judging"
        /\ jobs[run[r1].job[1]].phase = Some("writing")
        /\ jobs[run[r2].job[1]].phase = Some("judging")

\* The verdict of Judge call n of run s, None when there is no such call.
VerdictOf(s, n) == IF n = 0 THEN None ELSE Some(s.judge_outs[n].verdict)

\* C10 (progress protocol): while Writer call n of a job is in flight the
\* job's record has iteration = n and phase = "writing"; while Judge call n
\* is in flight it has iteration = n and phase = "judging"; in both cases
\* last_verdict is the verdict of Judge call n-1 (None for n = 1); and when
\* the run is about to write the next iteration number or its terminal
\* status after Judge call n, last_verdict is the verdict of Judge call n.
C10_ProgressProtocol ==
    \A r \in RunIds :
        LET s == run[r] IN
        s.job # None =>
            LET job == jobs[s.job[1]] IN
            /\ s.pc = "writing" =>
                   /\ job.iteration = Len(s.writer_calls)
                   /\ job.phase = Some("writing")
                   /\ job.last_verdict = VerdictOf(s, Len(s.writer_calls) - 1)
            /\ s.pc = "judging" =>
                   /\ job.iteration = Len(s.judge_calls)
                   /\ job.phase = Some("judging")
                   /\ job.last_verdict = VerdictOf(s, Len(s.judge_calls) - 1)
            /\ s.pc \in {"set_iteration", "set_status_done", "set_status_error"} =>
                   job.last_verdict = VerdictOf(s, Len(s.judge_outs))

\* The third Judge call of a job is in flight, after a "maybe" and a "fail".
C10_Witness ==
    \E r \in RunIds :
        /\ run[r].job # None
        /\ r \in DOMAIN run
    /\ run[r].pc = "judging"
        /\ Len(run[r].judge_calls) = 3
        /\ run[r].judge_outs[1].verdict = "maybe"
        /\ jobs[run[r].job[1]].last_verdict = Some("fail")

\* One write of the phase field: unchanged, null to writing, writing to
\* judging, or judging to writing.
PhaseStep(p, q) ==
    \/ q = p
    \/ p = None /\ q = Some("writing")
    \/ p = Some("writing") /\ q = Some("judging")
    \/ p = Some("judging") /\ q = Some("writing")

\* The status query answered id with a record.
Read(p, id) == p # None /\ p[1].job_id = id /\ p[1].status_code = 200

\* C11: poller-visible ordering.  Every step moves the phase of every record
\* along null, writing, judging, writing, judging, ... and never lowers its
\* iteration; a status query that follows a status query of the same job
\* reads an iteration that is not smaller and does not read phase null after
\* a phase that was not null; and a query reads "judging" only after the
\* first Writer call of the job has returned.
C11_PollerOrdering ==
    [][/\ DOMAIN jobs \subseteq DOMAIN jobs'
       /\ \A id \in DOMAIN jobs :
            /\ jobs'[id].iteration >= jobs[id].iteration
            /\ PhaseStep(jobs[id].phase, jobs'[id].phase)
       /\ \A id \in DOMAIN jobs :
            (poll' # poll /\ Read(poll', id)) =>
                /\ Read(poll, id) =>
                     /\ poll'[1].body[1].iteration >= poll[1].body[1].iteration
                     /\ poll[1].body[1].phase # None =>
                            poll'[1].body[1].phase # None
                /\ poll'[1].body[1].phase = Some("judging") =>
                     \E r \in RunsOf(id) : Len(run[r].writer_outs) >= 1
      ]_vars

\* A status query read iteration 2 and phase "writing" of a job, in its
\* second round of the phases, and the worker has since moved it to "judging".
C11_Witness ==
    /\ Read(poll, 1)
    /\ poll[1].body[1].iteration = 2
    /\ poll[1].body[1].phase = Some("writing")
    /\ jobs[1].phase = Some("judging")
    /\ jobs[1].iteration = 2

\* The serialized record of iteration i of run r, from the calls' outcomes.
DumpOf(r, i) ==
    [iteration         |-> i,
     writer_output     |-> run[r].writer_outs[i],
     judge_verdict     |-> run[r].judge_outs[i].verdict,
     judge_annotations |-> run[r].judge_outs[i].annotations]

\* C12: terminal success.  When a background run has returned after its
\* first "pass" at iteration k, its Job Record has status "done", error
\* null, and result the serialization of the GenerateResponse the run
\* returned: success, article = draft k, iterations = k, and the history of
\* the k iterations if the run is verbose, null if it is not.
C12_TerminalSuccess ==
    \A r \in RunIds : \A k \in 1 .. MaxCap + 1 :
        (run[r].job # None /\ run[r].pc = "returned" /\ FirstPassAt(r, k)) =>
            LET job == jobs[run[r].job[1]] IN
            /\ job.status = "done"
            /\ job.error = None
            /\ run[r].response # None
            /\ run[r].response[1].success
            /\ job.result = Some(ModelDump(run[r].response[1]))
            /\ job.result[1].success
            /\ job.result[1].article = run[r].writer_outs[k]
            /\ job.result[1].iterations = k
            /\ job.result[1].history =
                   IF run[r].verbose
                   THEN Some([i \in 1 .. k |-> DumpOf(r, i)])
                   ELSE None

\* A verbose background run has returned after a pass at iteration 2.
C12_Witness ==
    \E r \in RunIds :
        /\ run[r].job # None
        /\ run[r].pc = "returned"
        /\ run[r].verbose
        /\ FirstPassAt(r, 2)
        /\ jobs[run[r].job[1]].status = "done"

\* No Judge call of run r that has returned, returned "pass".
NoPass(r) ==
    \A i \in 1 .. Len(run[r].judge_outs) : run[r].judge_outs[i].verdict # "pass"

\* C13: terminal cap failure.  When a background run has returned without a
\* "pass", its Job Record has status "error", error the reason text of the
\* ErrorResponse, which names the cap and is not the handler's "Unexpected
\* error" text, and result the serialized ErrorResponse with iterations = cap
\* and the cap records of the history; the run holds no exception, and no
\* run on the cap path was ever in the exception handler.
C13_TerminalCapFailure ==
    \A r \in RunIds :
        /\ (run[r].job # None /\ run[r].pc \in CapPath /\ NoPass(r)) =>
               /\ run[r].exc = None
               /\ run[r].response = Some(ErrorResponse(max_iterations,
                                                       run[r].history))
        /\ (run[r].job # None /\ run[r].pc = "returned" /\ NoPass(r)) =>
               LET job == jobs[run[r].job[1]]
                   cap == max_iterations
               IN
               /\ job.status = "error"
               /\ job.error = Some(run[r].response[1].error)
               /\ job.error = Some(CapErrorText(cap))
               /\ \A e \in Exceptions : job.error # Some(UnexpectedErrorText(e))
               /\ job.error[1][1] # "Unexpected error: "
               /\ job.result = Some(ModelDump(run[r].response[1]))
               /\ ~job.result[1].success
               /\ job.result[1].error = CapErrorText(cap)
               /\ job.result[1].iterations = cap
               /\ job.result[1].history = [i \in 1 .. cap |-> DumpOf(r, i)]

\* A background run with cap 2 has returned after two "fail" verdicts.
C13_Witness ==
    \E r \in RunIds :
        /\ run[r].job # None
        /\ run[r].pc = "returned"
        /\ max_iterations = 2
        /\ Len(run[r].judge_outs) = 2
        /\ AllFail(r)
        /\ jobs[run[r].job[1]].status = "error"

\* The calls run r has made so far, and their outcomes.
Calls(r) ==
    <<run[r].writer_calls, run[r].writer_outs,
      run[r].judge_calls, run[r].judge_outs>>

InProgress ==
    {r \in RunIds : run[r].job # None
                    /\ run[r].pc \notin {"queued", "returned", "raised"}}

\* The background runs that have ended by an exception.
Failed == {r \in RunIds : run[r].job # None /\ run[r].pc = "raised"}

\* C15: the process survives a failed job.  The steps of a run that raises
\* (the raise and the handler's two writes) change no other run and no other
\* record and take nothing but the run itself off the queue; once a run has
\* ended by an exception it holds no slot: the oldest queued run can start
\* whenever fewer than max_workers runs are in progress, and a submit is still
\* accepted; every run that returns leaves its own record as its own outcome
\* requires; and under fair scheduling every run eventually ends.
C15_SurvivesFailedJob ==
    /\ [][\A r \in RunIds :
            (run'[r].exc # None /\ run'[r] # run[r]) =>
                /\ Len(run') = Len(run)
                /\ \A q \in RunIds \ {r} : run'[q] = run[q]
                /\ DOMAIN jobs' = DOMAIN jobs
                /\ \A id \in DOMAIN jobs \ {run[r].job[1]} : jobs'[id] = jobs[id]
                /\ queue' = queue \/ (Head(queue) = r /\ queue' = Tail(queue))
                /\ replies' = replies
         ]_vars
    /\ [](Failed # {} =>
            /\ (queue # <<>> /\ Cardinality(InProgress) < max_workers) =>
                   ENABLED StartRun(Head(queue))
            /\ Len(run) < MaxPoolJobs =>
                   \A t \in Topics : ENABLED Submit(t, FALSE)
            /\ \A r \in RunIds :
                   run[r].pc = "returned" =>
                       LET job == jobs[run[r].job[1]] IN
                       /\ job.result = Some(ModelDump(run[r].response[1]))
                       /\ job.status = IF run[r].response[1].success
                                       THEN "done" ELSE "error"
                       /\ job.error = IF run[r].response[1].success
                                      THEN None
                                      ELSE Some(CapErrorText(max_iterations)))
    /\ <>[](\A r \in RunIds : run[r].pc \in {"returned", "raised"})

\* The first run has ended by an exception and four later runs are in
\* progress at once: the fifth started in the slot the failed run gave back.
C15_Witness ==
    /\ Failed = {1}
    /\ InProgress = 2 .. max_workers + 1

\* C16: bounded worker pool.  At most max_workers (4) runs are in progress at
\* any moment; with 4 runs in progress a submit is still accepted, and the
\* step that takes it queues the new run; the record of a queued run is the
\* one submit created (status running, iteration 0, phase null); a queued
\* run starts only when fewer than 4 runs are in progress, and whenever that
\* is so the oldest queued run can start.
C16_BoundedPool ==
    /\ [](/\ Cardinality(InProgress) <= max_workers
          /\ (Cardinality(InProgress) = max_workers /\ Len(run) < MaxPoolJobs) =>
                 \A t \in Topics : ENABLED Submit(t, FALSE)
          /\ \A r \in RunIds :
                 run[r].pc = "queued" =>
                     LET job == jobs[run[r].job[1]] IN
                     /\ job = NewJob(max_iterations)
                     /\ job.status = "running"
                     /\ job.iteration = 0
                     /\ job.phase = None
                     /\ \E i \in 1 .. Len(queue) : queue[i] = r
          /\ (queue # <<>> /\ Cardinality(InProgress) < max_workers) =>
                 ENABLED StartRun(Head(queue)))
    /\ [][/\ Len(run') > Len(run) =>
                /\ run'[Len(run')].pc = "queued"
                /\ queue' = Append(queue, Len(run'))
                /\ replies' = Append(replies, run'[Len(run')].job[1])
          /\ \A r \in RunIds :
                (run[r].pc = "queued" /\ run'[r].pc # "queued") =>
                    /\ Cardinality(InProgress) < max_workers
                    /\ Head(queue) = r
         ]_vars

\* Four runs are in progress and a fifth, submitted behind them, is queued
\* with its record untouched.
C16_Witness ==
    /\ InProgress = 1 .. max_workers
    /\ Len(run) = max_workers + 1
    /\ run[max_workers + 1].pc = "queued"
    /\ jobs[max_workers + 1].status = "running"
    /\ replies[max_workers + 1] = max_workers + 1

Terminal == {"done", "error"}

\* C17: liveness.  Under fair scheduling, with every agent call returning or
\* raising, there is a moment from which every submitted job has status
\* "done" or "error", the jobs that waited behind a full pool included; a
\* status is always "running", "done" or "error", a terminal status never
\* changes again, and a run leaves the pool only by returning or raising.
C17_Liveness ==
    /\ <>[](\A id \in DOMAIN jobs : jobs[id].status \in Terminal)
    /\ [](\A id \in DOMAIN jobs :
            /\ jobs[id].status \in {"running"} \cup Terminal
            /\ jobs[id].status = "running" =>
                   \E r \in RunsOf(id) : run[r].pc \notin {"returned", "raised"})
    /\ [][\A id \in DOMAIN jobs :
            jobs[id].status \in Terminal => jobs'[id].status = jobs[id].status
         ]_vars

\* One job more than the pool has threads was submitted and every job has
\* ended: the first by an exception, the last, which ran, with status "done".
C17_Witness ==
    /\ Len(run) = max_workers + 1
    /\ \A id \in DOMAIN jobs : jobs[id].status \in Terminal
    /\ run[1].pc = "raised"
    /\ jobs[1].error = Some(UnexpectedErrorText("boom"))
    /\ jobs[max_workers + 1].status = "done"
    /\ Len(run[max_workers + 1].judge_outs) = 1

\* C18: poll is a pure read.  A step that answers a status query leaves the
\* registry, every Job Record, every run, the queue and the replies of submit
\* as they were; for an id submit has returned the answer is 200 with that
\* job's current record, for any other id it is 404 without a record; and a
\* status query can be made in every state.
C18_PollPureRead ==
    /\ [][poll' # poll =>
            /\ jobs' = jobs
            /\ run' = run
            /\ queue' = queue
            /\ replies' = replies
            /\ max_iterations' = max_iterations
            /\ poll' # None
            /\ LET id == poll'[1].job_id IN
               IF id \in Items(replies)
               THEN /\ poll'[1].status_code = 200
                    /\ poll'[1].body = Some(jobs[id])
               ELSE /\ poll'[1].status_code = 404
                    /\ poll'[1].body = None
         ]_vars
    /\ [](\A id \in 1 .. MaxJobs + 1 : ENABLED Poll(id))

\* A status query was answered with the record of a job whose Judge call is
\* under way, and the record is still the one that was read.
C18_Witness ==
    /\ Read(poll, 1)
    /\ poll[1].body = Some(jobs[1])
    /\ jobs[1].phase = Some("judging")
    /\ run[1].pc = "judging"

\* C19: jobs are never deleted.  The set of ids in the registry only grows,
\* the ids submit has returned only grow and are all in the registry, and a
\* status query of an id submit has returned is answered with a record,
\* never with not-found, whatever the status of the job.
C19_NeverDeleted ==
    /\ [](Items(replies) \subseteq DOMAIN jobs)
    /\ [][/\ DOMAIN jobs \subseteq DOMAIN jobs'
          /\ Items(replies) \subseteq Items(replies')
          /\ \A id \in Items(replies) :
                (poll' # poll /\ poll' # None /\ poll'[1].job_id = id) =>
                    Read(poll', id)
         ]_vars

\* The first job ended with status "error", a second job was submitted and
\* has ended too, and a status query of the first job still finds its record.
C19_Witness ==
    /\ Read(poll, 1)
    /\ poll[1].body[1].status = "error"
    /\ Len(run) = 2
    /\ jobs[2].status = "done"
    /\ run[2].pc = "returned"

\* C20: result and error only in terminal states.  In every Job Record, a
\* result that is not null implies status "done" or "error", an error that is
\* not null implies status "error", and a record with status "running" has
\* result null and error null.
C20_TerminalFields ==
    \A id \in DOMAIN jobs :
        /\ jobs[id].result # None => jobs[id].status \in Terminal
        /\ jobs[id].error # None => jobs[id].status = "error"
        /\ jobs[id].status = "running" =>
               jobs[id].result = None /\ jobs[id].error = None

\* One record has status "error" with error and result set (the cap was
\* reached) while another has status "done" with its result and no error.
C20_Witness ==
    \E a, b \in DOMAIN jobs :
        /\ jobs[a].status = "error"
        /\ jobs[a].error # None
        /\ jobs[a].result # None
        /\ jobs[b].status = "done"
        /\ jobs[b].result # None
        /\ jobs[b].error = None

\* C21: the result is written no later than the terminal status.  A status
\* query that reads status "done" also reads a result that is not null, and a
\* status query that reads status "error" of a run that reached the cap also
\* reads the error text and a result that is not null.
C21_ResultWithStatus ==
    \A id \in DOMAIN jobs :
        Read(poll, id) =>
            LET body == poll[1].body[1] IN
            /\ body.status = "done" => body.result # None
            /\ (body.status = "error"
                  /\ \A r \in RunsOf(id) : run[r].exc = None) =>
                   /\ body.error # None
                   /\ body.result # None

\* Judge call i of run r returned "fail" with no annotation.
EmptyFail(r, i) ==
    /\ i \in 1 .. Len(run[r].judge_outs)
    /\ run[r].judge_outs[i].verdict = "fail"
    /\ run[r].judge_outs[i].annotations = <<>>

\* C22: a fail with zero annotations is surfaced, not silently accepted.
\* After a Judge call has returned "fail" with an empty annotation list the
\* run makes no further Writer call as it would after an ordinary fail, and
\* it does not end with the ordinary ErrorResponse of the cap; in any case a
\* run never makes more Writer calls than the cap.
C22_EmptyFailSurfaced ==
    \A r \in RunIds :
        /\ Len(run[r].writer_calls) <= max_iterations
        /\ \A i \in 1 .. MaxCap + 1 :
             EmptyFail(r, i) =>
                 /\ Len(run[r].writer_calls) <= i
                 /\ run[r].pc \notin CapPath

\* Two sequences agree wherever both have an element.
Agree(x, y) ==
    \A i \in 1 .. Len(x) : i <= Len(y) => x[i] = y[i]

Ended(s) == s.pc \in {"returned", "raised"}

\* C23: progress writes do not influence control flow.  For a run with a job
\* record and a run without one, of the same topic, verbose flag and cap: as
\* long as the agents' outputs agree, so do the calls made and their
\* arguments; and when the outputs and the exception, if any, are the same,
\* a run that has ended has made the calls the other has made or is about to
\* have made, the other makes no call beyond them, and two runs that have
\* both ended have the same history and the same return value.
C23_ProgressWritesInert ==
    Len(run) = 2 =>
        LET a == run[1]
            b == run[2]
            same == /\ a.writer_outs = b.writer_outs
                    /\ a.judge_outs = b.judge_outs
                    /\ a.exc = b.exc
        IN
        /\ (Agree(a.writer_outs, b.writer_outs)
              /\ Agree(a.judge_outs, b.judge_outs)) =>
               /\ Agree(a.writer_calls, b.writer_calls)
               /\ Agree(a.judge_calls, b.judge_calls)
        /\ (same /\ Ended(a)) =>
               /\ Len(b.writer_calls) <= Len(a.writer_calls)
               /\ Len(b.judge_calls) <= Len(a.judge_calls)
        /\ (same /\ Ended(b)) =>
               /\ Len(a.writer_calls) <= Len(b.writer_calls)
               /\ Len(a.judge_calls) <= Len(b.judge_calls)
        /\ (same /\ Ended(a) /\ Ended(b)) =>
               /\ a.response = b.response
               /\ a.history = b.history
               /\ a.writer_calls = b.writer_calls
               /\ a.judge_calls = b.judge_calls

\* Both runs have returned after the same fail and pass: two calls of each
\* agent, the second Writer call with the feedback, and the same response.
C23_Witness ==
    /\ Len(run) = 2
    /\ run[1].job # None
    /\ run[2].job = None
    /\ run[1].pc = "returned"
    /\ run[2].pc = "returned"
    /\ run[1].judge_outs = <<JobFail, JobPass>>
    /\ run[2].judge_outs = run[1].judge_outs
    /\ run[2].writer_outs = run[1].writer_outs
    /\ jobs[1].status = "done"

\* The parts of `sub` appear in `text`, in order and next to each other.
SubText(text, sub) ==
    \E i \in 1 .. Len(text) + 1 :
        /\ i + Len(sub) - 1 <= Len(text)
        /\ \A k \in 1 .. Len(sub) : text[i + k - 1] = sub[k]

\* C24: the Writer's three-call flow.  An invocation of write() makes its
\* completion calls in the order plan, search, write, one per stage and never
\* more than three, and has made exactly three when it returns; the plan and
\* the write call carry no tools, the search call carries the web search tool
\* capped at 2 uses; the plan call's output is the content of an assistant
\* turn of the search call; the search call's output is in the write call's
\* system prompt; and write() returns exactly the write call's output.
C24_WriterThreeCalls ==
    llm.agent = "writer" =>
        /\ Len(llm.calls) <= 3
        /\ Len(llm.outs) <= Len(llm.calls)
        /\ llm.pc = "plan" => Len(llm.calls) = 1 /\ Len(llm.outs) = 0
        /\ llm.pc = "search" => Len(llm.calls) = 2 /\ Len(llm.outs) = 1
        /\ llm.pc = "write" => Len(llm.calls) = 3 /\ Len(llm.outs) = 2
        /\ llm.pc = "returned" => Len(llm.calls) = 3 /\ Len(llm.outs) = 3
        /\ \A i \in 1 .. Len(llm.calls) : llm.calls[i].method = "complete"
        /\ llm.calls[1].tools = None
        /\ llm.calls[1].system_prompt = PLAN_SYSTEM_PROMPT
        /\ Len(llm.calls) >= 2 =>
               /\ llm.calls[2].tools # None
               /\ Len(llm.calls[2].tools[1]) = 1
               /\ llm.calls[2].tools[1][1].name = "web_search"
               /\ llm.calls[2].tools[1][1].max_uses = 2
               /\ llm.calls[2].system_prompt = SEARCH_SYSTEM_PROMPT
               /\ \E m \in 1 .. Len(llm.calls[2].messages) :
                      /\ llm.calls[2].messages[m].role = "assistant"
                      /\ llm.calls[2].messages[m].content = llm.outs[1]
        /\ Len(llm.calls) >= 3 =>
               /\ llm.calls[3].tools = None
               /\ SubText(llm.calls[3].system_prompt, llm.outs[2])
        /\ llm.pc = "returned" => llm.ret = Some(llm.outs[3])

\* write() has returned after three calls whose outputs were all different
\* from the one before.
C24_Witness ==
    /\ llm.agent = "writer"
    /\ llm.pc = "returned"
    /\ llm.outs = <<<<"text A">>, <<"text B">>, <<"text A">>>>
    /\ llm.ret = Some(<<"text A">>)

\* The parts of `items` appear in `text` in their order.
InOrder(text, items) ==
    \E pos \in [1 .. Len(items) -> 1 .. Len(text)] :
        /\ \A k \in 1 .. Len(items) : text[pos[k]] = items[k]
        /\ \A k \in 1 .. Len(items) - 1 : pos[k] < pos[k + 1]

\* C25: feedback and rules in the Writer's instructions.  With a non-empty
\* feedback list every item is in the plan query and in the write call's
\* system prompt; without feedback the system prompt has neither the
\* feedback header nor a leftover {feedback} placeholder; and the system
\* prompt of every write call has the rules block: the maximum word count,
\* the maximum paragraph count, the required sections in order, the tone.
C25_FeedbackAndRules ==
    llm.agent = "writer" =>
        LET plan_query == llm.calls[1].messages[1].content
            rules == llm.config[1].article_rules
        IN
        /\ HasFeedback(llm.feedback) =>
               \A i \in 1 .. Len(llm.feedback[1]) :
                   /\ Contains(plan_query, llm.feedback[1][i])
                   /\ Len(llm.calls) >= 3 =>
                          Contains(llm.calls[3].system_prompt, llm.feedback[1][i])
        /\ (llm.feedback = None /\ Len(llm.calls) >= 3) =>
               /\ ~Contains(llm.calls[3].system_prompt,
                            "Feedback from the previous review:\n")
               /\ ~Contains(llm.calls[3].system_prompt, "{feedback}")
        /\ Len(llm.calls) >= 3 =>
               LET prompt == llm.calls[3].system_prompt IN
               /\ Contains(prompt, "Article structure rules:\n")
               /\ SubText(prompt, <<"- Maximum word count: ",
                                    ToString(rules.max_word_count)>>)
               /\ SubText(prompt, <<"- Maximum paragraph count: ",
                                    ToString(rules.max_paragraph_count)>>)
               /\ Contains(prompt, "- Required sections (in order): ")
               /\ InOrder(prompt, rules.required_sections)
               /\ SubText(prompt, <<"- Tone: ", rules.tone>>)
               /\ Contains(prompt, llm.topic[1])

\* The write call of a revision round with two annotations has been made.
C25_Witness ==
    /\ llm.agent = "writer"
    /\ llm.pc = "write"
    /\ llm.feedback = Some(<<"issue B", "issue A">>)
    /\ Contains(llm.calls[3].system_prompt, "issue B")

\* C26: the Writer's output is never empty on success.  Whenever write()
\* has returned, the draft it returned is not the empty text, whatever the
\* three completion calls returned.
C26_DraftNeverEmpty ==
    (llm.agent = "writer" /\ llm.pc = "returned") =>
        /\ llm.ret # None
        /\ llm.ret[1] # <<>>

\* C27: the Judge's two-call flow.  An invocation of judge() makes one
\* research call, a plain completion call with the web search tool, and then
\* one forced-structured call with the verdict tool, under the same system
\* prompt; the turn before the last of the structured call's conversation is
\* an assistant turn whose content is the research call's output; the verdict
\* returned is the structured value's verdict, and the annotations returned
\* are its annotation items in order, as strings, or the empty list when the
\* value has no annotations or a null one.
C27_JudgeTwoCalls ==
    llm.agent = "judge" =>
        /\ Len(llm.calls) <= 2
        /\ llm.pc = "research" => Len(llm.calls) = 1 /\ Len(llm.outs) = 0
        /\ llm.pc = "verdict" => Len(llm.calls) = 2 /\ Len(llm.outs) = 1
        /\ llm.pc = "returned" => Len(llm.calls) = 2 /\ Len(llm.outs) = 2
        /\ llm.calls[1].method = "complete"
        /\ llm.calls[1].tools = Some(<<WEB_SEARCH_TOOL>>)
        /\ Contains(llm.calls[1].system_prompt, llm.topic[1])
        /\ SubText(llm.calls[1].system_prompt, llm.article[1])
        /\ Len(llm.calls) = 2 =>
               LET msgs == llm.calls[2].messages IN
               /\ llm.calls[2].method = "complete_structured"
               /\ llm.calls[2].tool.name = "submit_verdict"
               /\ llm.calls[2].system_prompt = llm.calls[1].system_prompt
               /\ Len(msgs) = Len(llm.calls[1].messages) + 2
               /\ msgs[Len(msgs) - 1] = Message("assistant", llm.outs[1])
               /\ msgs[Len(msgs)].role = "user"
        /\ llm.pc = "returned" =>
               LET data == llm.outs[2]
                   res  == llm.ret[1]
               IN
               /\ res.verdict = data.verdict
               /\ data.annotations.kind \in {"absent", "null"} =>
                      res.annotations = <<>>
               /\ data.annotations.kind = "list" =>
                      /\ Len(res.annotations) = Len(data.annotations.items)
                      /\ \A i \in 1 .. Len(res.annotations) :
                             res.annotations[i] =
                                 IF "str" \in DOMAIN data.annotations.items[i]
                                 THEN data.annotations.items[i].str
                                 ELSE ToString(data.annotations.items[i].int)

\* judge() has returned "fail" with two annotations, the second of which the
\* structured value held as a number.
C27_Witness ==
    /\ llm.agent = "judge"
    /\ llm.pc = "returned"
    /\ llm.outs[1] = <<"text A">>
    /\ llm.ret = Some([verdict |-> "fail", annotations |-> <<"issue B", "7">>])

\* The five defects of a Judge text, in the order the parser looks for them.
Defects(text) ==
    <<text.syntax # "ok",
      text.shape # "mapping",
      text.verdict = None,
      text.verdict # None /\ Lower(text.verdict[1]) \notin {"pass", "fail"},
      text.annotations.kind = "scalar">>

\* The reason reported for each defect.
DefectReasons ==
    <<"malformed-structure", "wrong-shape", "missing-field", "invalid-enum",
      "wrong-type">>

\* The first defect of a text, 0 when it has none.
FirstDefect(text) ==
    IF \A i \in 1 .. 5 : ~Defects(text)[i] THEN 0
    ELSE CHOOSE i \in 1 .. 5 :
             Defects(text)[i] /\ \A j \in 1 .. i - 1 : ~Defects(text)[j]

\* C28: Reviewer parse errors.  For a text with none of the five defects the
\* parser returns the verdict (pass or fail) and the annotations of the text;
\* for any other text it raises the error of the first defect in the order
\* malformed syntax, not a mapping, missing verdict, verdict outside
\* {pass, fail}, annotations not a list, and the five errors differ from one
\* another.  A run whose Judge call raised such an error makes no further
\* Writer or Judge call, and its Job Record ends with status "error", the
\* error text wrapping the parse error, and no result.
C28_ParseErrors ==
    /\ [](llm.agent = "parser" =>
            LET text == llm.article[1]
                d    == FirstDefect(text) IN
            /\ d = 0 =>
                 /\ llm.pc = "returned" /\ llm.exc = None
                 /\ llm.ret = Some([verdict     |-> Lower(text.verdict[1]),
                                    annotations |-> text.annotations.items])
                 /\ llm.ret[1].verdict \in {"pass", "fail"}
            /\ d # 0 =>
                 /\ llm.pc = "raised" /\ llm.ret = None
                 /\ llm.exc = Some(ParseError(DefectReasons[d])))
    /\ [](\A i, j \in 1 .. 5 : i # j => DefectReasons[i] # DefectReasons[j])
    /\ [](\A r \in RunIds :
            (run[r].job # None /\ run[r].pc = "raised") =>
                LET job == jobs[run[r].job[1]] IN
                /\ job.status = "error"
                /\ job.error = Some(UnexpectedErrorText(run[r].exc[1]))
                /\ job.result = None)
    /\ [][\A r \in RunIds :
            /\ ParsedJudgeRaises(r) =>
                 /\ run'[r].exc = llm.exc
                 /\ run'[r].pc = "exc_status"
                 /\ Calls(r)' = Calls(r)
            /\ run[r].exc # None =>
                 /\ Calls(r)' = Calls(r)
                 /\ run'[r].exc = run[r].exc
                 /\ run'[r].pc \in {"exc_status", "exc_error", "raised"}
         ]_vars

\* A run has ended by the parse error of its second Judge text, a mapping
\* whose verdict is "maybe" and whose annotations are a scalar: the error is
\* the verdict's, and the Job Record has status "error".
C28_Witness ==
    \E r \in RunIds :
        /\ run[r].job # None
        /\ run[r].pc = "raised"
        /\ Len(run[r].judge_calls) = 2
        /\ llm.agent = "parser"
        /\ llm.article[1].verdict = Some("maybe")
        /\ llm.article[1].annotations.kind = "scalar"
        /\ run[r].exc = Some(ParseError("invalid-enum"))
        /\ jobs[run[r].job[1]].status = "error"

\* The header x_api_key does not authenticate a request: it is absent or
\* empty, API_KEY is unset or empty, or the two differ.
Unauthenticated(x_api_key) ==
    \/ x_api_key = None
    \/ x_api_key = Some("")
    \/ api_key = None
    \/ api_key = Some("")
    \/ x_api_key # api_key

C30_TerminalAbsorbing ==
    [][\A id \in DOMAIN jobs :
         jobs[id].status \in {"done", "error"} =>
             /\ id \in DOMAIN jobs'
             /\ jobs'[id].status = jobs[id].status
             /\ jobs'[id].iteration = jobs[id].iteration
             /\ jobs'[id].phase = jobs[id].phase
             /\ jobs'[id].last_verdict = jobs[id].last_verdict
      ]_vars

\* A job that failed twice under cap 2 has its terminal status and, written
\* after it, its error and result; the progress fields are those of the last
\* Judge verdict.
C30_Witness ==
    /\ max_iterations = 2
    /\ Len(jobs) = 1
    /\ jobs[1].status = "error"
    /\ jobs[1].error # None
    /\ jobs[1].result # None
    /\ jobs[1].iteration = 2
    /\ jobs[1].phase = Some("judging")
    /\ jobs[1].last_verdict = Some("fail")

\* C31: phase and iteration are consistent in what a status query reads.
\* Whenever a query reads phase "judging" together with iteration n for a
\* job, Writer call n of that job has already returned.
C31_PhaseIterationConsistent ==
    \A id \in DOMAIN jobs :
        (Read(poll, id) /\ poll[1].body[1].phase = Some("judging")) =>
            \A r \in RunsOf(id) :
                Len(run[r].writer_outs) >= poll[1].body[1].iteration

\* C32 as stated: in every state of every Job Record the iteration is between
\* 0 and max_iterations and equals the number of Writer calls started for
\* that job.
C32_IterationCountsCalls ==
    \A r \in RunIds :
        run[r].job # None =>
            LET job == jobs[run[r].job[1]] IN
            /\ job.iteration \in 0 .. job.max_iterations
            /\ job.iteration = Len(run[r].writer_calls)

\* C32, amended: iteration counter bounds.  In every state of every Job
\* Record 0 <= iteration <= max_iterations; the iteration equals the number
\* of Writer calls started for that job, except between the write of the
\* iteration number and the start of the Writer call of that iteration, where
\* it is one more; so it is 0 exactly until the worker writes iteration 1.
\* Each step leaves it or raises it by exactly 1, and the record's
\* max_iterations field, the configured cap, never changes.
C32_IterationBounds ==
    /\ [](\A r \in RunIds :
            run[r].job # None =>
                LET job == jobs[run[r].job[1]] IN
                /\ job.iteration \in 0 .. job.max_iterations
                /\ job.max_iterations = max_iterations
                /\ job.iteration =
                       IF run[r].pc = "set_phase_writing"
                       THEN Len(run[r].writer_calls) + 1
                       ELSE Len(run[r].writer_calls)
                /\ job.iteration = 0 <=>
                       /\ run[r].writer_calls = <<>>
                       /\ run[r].pc # "set_phase_writing")
    /\ [][\A id \in DOMAIN jobs :
            /\ jobs'[id].iteration \in {jobs[id].iteration, jobs[id].iteration + 1}
            /\ jobs'[id].max_iterations = jobs[id].max_iterations
            /\ jobs'[id].iteration # jobs[id].iteration =>
                   \E r \in RunsOf(id) : run[r].pc = "set_iteration"
         ]_vars

\* Iteration 2 has been written to the record of a job with cap 3 and Writer
\* call 2 has not started: the record says 2, one call was made.
C32_Witness ==
    \E r \in RunIds :
        /\ run[r].job # None
        /\ run[r].pc = "set_phase_writing"
        /\ max_iterations = 3
        /\ jobs[run[r].job[1]].iteration = 2
        /\ Len(run[r].writer_calls) = 1

\* C33 as stated: status "done" implies last_verdict "pass"; once the result
\* is present its iterations equals the record's iteration and the phase is
\* "judging"; and for a capped run with a cap of at least 1, last_verdict is
\* "fail" and iteration is max_iterations.
C33_TerminalRecordAsStated ==
    \A id \in DOMAIN jobs :
        LET job == jobs[id] IN
        /\ job.status = "done" => job.last_verdict = Some("pass")
        /\ job.result # None =>
             /\ job.result[1].iterations = job.iteration
             /\ job.phase = Some("judging")
             /\ (job.status = "error" /\ job.max_iterations >= 1) =>
                    /\ job.last_verdict = Some("fail")
                    /\ job.iteration = job.max_iterations

\* C33, amended: terminal record consistency.  Status "done" implies
\* last_verdict "pass", and a record with a result is terminal.  Once the
\* result is present its iterations equals the record's iteration; the phase
\* is "judging", except under cap 0, where no call was made and it is null;
\* and for a capped run the iteration is max_iterations and last_verdict is
\* the verdict of the last Judge call, which is any value but "pass" ("fail"
\* when the Judge keeps to pass and fail), and null under cap 0.
C33_TerminalRecord ==
    \A r \in RunIds :
        run[r].job # None =>
            LET job == jobs[run[r].job[1]]
                n   == Len(run[r].judge_outs) IN
            /\ job.status = "done" => job.last_verdict = Some("pass")
            /\ job.result # None =>
                 /\ job.status \in {"done", "error"}
                 /\ job.result[1].iterations = job.iteration
                 /\ job.phase = IF job.max_iterations = 0 THEN None
                                ELSE Some("judging")
                 /\ job.status = "error" =>
                        /\ job.iteration = job.max_iterations
                        /\ n = job.max_iterations
                        /\ job.last_verdict = VerdictOf(run[r], n)
                        /\ job.last_verdict # Some("pass")
                        /\ (\A i \in 1 .. n :
                               run[r].judge_outs[i].verdict \in {"pass", "fail"})
                             => job.last_verdict =
                                    IF n = 0 THEN None ELSE Some("fail")

\* A job with cap 2 has its result after a "fail" and a "maybe": the record
\* has iteration 2, phase "judging" and last_verdict "maybe".
C33_Witness ==
    \E r \in RunIds :
        /\ run[r].job # None
        /\ max_iterations = 2
        /\ jobs[run[r].job[1]].result # None
        /\ jobs[run[r].job[1]].status = "error"
        /\ jobs[run[r].job[1]].last_verdict = Some("maybe")
        /\ run[r].judge_outs[1].verdict = "fail"

\* The phase of the call of run s that raised: null when the construction of
\* the agents raised, "writing" for a Writer call, "judging" for a Judge call.
RaisedPhase(s) ==
    IF s.writer_calls = <<>> THEN None
    ELSE IF Len(s.judge_calls) < Len(s.writer_calls) THEN Some("writing")
    ELSE Some("judging")

C35_DegenerateCap ==
    /\ [](\A r \in RunIds :
            LET s == run[r] IN
            /\ s.response # None => s.response[1].iterations = Len(s.history)
            /\ max_iterations = 0 =>
                 /\ s.writer_calls = <<>> /\ s.judge_calls = <<>>
                 /\ s.response # None =>
                        /\ s.response[1] = ErrorResponse(0, <<>>)
                        /\ s.response[1].iterations = 0
                        /\ s.response[1].history = <<>>
                 /\ (s.pc = "returned") => s.response # None
                 /\ s.job # None =>
                        LET job == jobs[s.job[1]] IN
                        /\ job.iteration = 0
                        /\ job.phase = None
                        /\ job.last_verdict = None
                        /\ job.status \in {"running", "error"}
                        /\ s.pc = "returned" =>
                               /\ job.status = "error"
                               /\ job.result[1].iterations = 0
                               /\ job.result[1].history = <<>>)
    /\ [][max_iterations = 0 =>
            \A id \in DOMAIN jobs :
                jobs'[id].status # jobs[id].status =>
                    /\ jobs[id].status = "running"
                    /\ jobs'[id].status = "error"
                    /\ jobs'[id].phase = None
                    /\ jobs'[id].iteration = 0
         ]_vars

\* A job under cap 0 has returned: no call was made, and its record has
\* status "error", phase null and a result with iterations 0.
C35_Witness ==
    \E r \in RunIds :
        /\ max_iterations = 0
        /\ run[r].job # None
        /\ run[r].pc = "returned"
        /\ run[r].writer_calls = <<>>
        /\ jobs[run[r].job[1]].status = "error"
        /\ jobs[run[r].job[1]].phase = None
        /\ jobs[run[r].job[1]].result[1].iterations = 0

\* The feedback an invocation of write() is compared with: none for the empty
\* list, the empty list for none.
Counterpart(feedback) == IF feedback = None THEN Some(<<>>) ELSE None

\* C36: empty feedback equals no feedback in the Writer.  An invocation of
\* write() with feedback [] or None sends, call by call, the plan query and
\* the draft system prompt that the invocation with the other of the two
\* sends for the same topic, configuration and completion outputs; neither
\* has the rejection sentence of the plan query or the feedback header of the
\* system prompt.  The feedback the loop passes on after a fail with zero
\* annotations is the empty list.
C36_EmptyFeedbackIsNone ==
    /\ NextFeedback(None, [verdict |-> "fail", annotations |-> <<>>]) = Some(<<>>)
    /\ (llm.agent = "writer" /\ llm.feedback \in {None, Some(<<>>)}) =>
        LET other == Counterpart(llm.feedback)
            topic == llm.topic[1] IN
        /\ llm.calls[1].messages[1].content = Writer_build_plan_query(topic, other)
        /\ ~Contains(llm.calls[1].messages[1].content,
                     "The previous draft was rejected for these factual errors:\n")
        /\ Len(llm.calls) >= 2 =>
               llm.calls[2].messages[1].content =
                   Writer_build_plan_query(topic, other)
        /\ Len(llm.calls) >= 3 =>
               /\ llm.calls[3].system_prompt =
                      Writer_build_system_prompt(llm.config[1], topic, other,
                                                 llm.outs[2])
               /\ ~Contains(llm.calls[3].system_prompt,
                            "Feedback from the previous review:\n")
               /\ ~Contains(llm.calls[3].system_prompt, "{feedback}")

\* write() was called with the empty feedback list and has made its write
\* call.
C36_Witness ==
    /\ llm.agent = "writer"
    /\ llm.feedback = Some(<<>>)
    /\ llm.pc = "write"
    /\ Len(llm.calls) = 3
    /\ llm.outs = <<<<"text A">>, <<"text B">>>>

\* C37: only the exact verdict "pass" accepts.  A run builds the
\* GenerateResponse if and only if its last Judge call returned "pass", and a
\* "pass" is the last verdict of its run: no Writer call follows it, whatever
\* annotations it carries, and these are in the history.  Every other
\* verdict, "fail" or not, is followed, when the cap allows another
\* iteration, by a Writer call whose feedback is exactly its annotations, and
\* by the ErrorResponse when it is the cap-th.
C37_OnlyPassAccepts ==
    \A r \in RunIds :
        LET s == run[r]
            n == Len(s.judge_outs) IN
        /\ \A k \in 1 .. n :
             /\ s.judge_outs[k].verdict = "pass" =>
                    /\ k = n
                    /\ Len(s.writer_calls) = k
                    /\ s.pc \in {"set_last_verdict"} \cup AcceptPath
                    /\ Len(s.history) = k =>
                           s.history[k].judge_annotations =
                               s.judge_outs[k].annotations
             /\ (s.judge_outs[k].verdict # "pass" /\ Len(s.history) >= k) =>
                    /\ s.pc \in {"set_status_done", "set_result_done"} => k < n
                    /\ k < max_iterations =>
                           \/ s.pc \in {"set_iteration", "set_phase_writing"} /\ k = n
                              /\ s.feedback = Some(s.judge_outs[k].annotations)
                              /\ s.iteration = k + 1
                           \/ /\ Len(s.writer_calls) >= k + 1
                              /\ s.writer_calls[k + 1].feedback =
                                     Some(s.judge_outs[k].annotations)
                    /\ k = max_iterations =>
                           /\ s.response # None
                           /\ ~s.response[1].success
        /\ s.response # None =>
             (s.response[1].success <=>
                  (n >= 1 /\ s.judge_outs[n].verdict = "pass"))

\* A run under cap 2 returned its GenerateResponse after a "maybe" with two
\* annotations, which were the feedback of the second Writer call, and a
\* "pass" with one annotation, which is in the history.
C37_Witness ==
    \E r \in RunIds :
        /\ run[r].pc = "returned"
        /\ max_iterations = 2
        /\ run[r].judge_outs[1] =
               [verdict |-> "maybe", annotations |-> <<"issue B", "issue A">>]
        /\ run[r].judge_outs[2] =
               [verdict |-> "pass", annotations |-> <<"issue A">>]
        /\ run[r].writer_calls[2].feedback = Some(<<"issue B", "issue A">>)
        /\ run[r].response[1].success
        /\ run[r].history[2].judge_annotations = <<"issue A">>

\* The ids that, by the calls made, were returned by create_session() and
\* not deleted since.
RECURSIVE Live(_)
Live(calls) ==
    IF calls = <<>> THEN {}
    ELSE LET last   == calls[Len(calls)]
             before == Live(SubSeq(calls, 1, Len(calls) - 1)) IN
         IF last.op = "create_session" THEN before \cup {last.id}
         ELSE IF last.op = "delete_session" THEN before \ {last.id}
         ELSE before

\* C38: session store.  After any sequence of create_session, delete_session
\* and login calls, is_valid(s) is true exactly for the ids that were
\* returned by create_session and not deleted since, and is_valid(None) is
\* false.  A login with a password other than the expected one (the empty
\* password when none is configured) stores no session; delete_session of an
\* id that is not stored changes nothing; and the set of sessions changes
\* only by a call that stores one id or removes one id.
C38_SessionStore ==
    /\ [](/\ \A id \in Tokens : is_valid(Some(id)) <=> id \in Live(session_calls)
          /\ ~is_valid(None))
    /\ [][/\ \A password \in Passwords :
               (/\ password # (IF session_password = None THEN ""
                               ELSE session_password[1])
                /\ \E id \in Tokens : Login(password, id)) =>
                   sessions' = sessions
          /\ \A id \in Tokens :
               (DeleteSession(id) /\ ~is_valid(Some(id))) => sessions' = sessions
          /\ sessions' # sessions =>
               LET last == session_calls'[Len(session_calls')] IN
               /\ Len(session_calls') = Len(session_calls) + 1
               /\ \/ /\ last.op = "create_session"
                     /\ sessions' = sessions \cup {last.id}
                  \/ /\ last.op = "delete_session"
                     /\ sessions' = sessions \ {last.id}
         ]_vars

\* Two sessions were created by logins, the first was deleted, and a login
\* with a wrong password followed: only the second is valid.
C38_Witness ==
    /\ Len(session_calls) = 4
    /\ session_calls[1].op = "create_session"
    /\ session_calls[2].op = "create_session"
    /\ session_calls[2].id # session_calls[1].id
    /\ session_calls[3] = SessionCall("delete_session", session_calls[1].id)
    /\ session_calls[4].op = "login_rejected"
    /\ sessions = {session_calls[2].id}

====
